---- MODULE Spec2Model ----
(***************************************************************************)
(* Vibe Code Guardian: the checkpoint/session store (CheckpointManager)    *)
(* and the rollback engine (RollbackManager), as a state machine.          *)
(*                                                                         *)
(* Ids produced by generateId() (8 random bytes) are modelled as fresh     *)
(* naturals; 0 stands for `undefined`.  Date.now() is a clock that never   *)
(* goes back and may return the same millisecond twice.  File paths are    *)
(* sequences of characters, so that String.endsWith is a suffix test.      *)
(***************************************************************************)
EXTENDS Integers, Sequences, FiniteSets, TLC

\* ------------------------------------------------------------------ bounds
\* settings.maxCheckpoints is 100 in DEFAULT_SETTINGS; the specifications run
\* with small limits so that retention is reached within a few checkpoints.
\* Spec, SpecRetention: settings.maxCheckpoints
MaxCheckpointsLimit == 2
\* Spec: generateId() stops handing out ids here
MaxId == 4
\* Spec: commit hashes the repository hands out
MaxHash == 1
\* SpecChain: settings.maxCheckpoints
ChainLimit == 3
\* SpecChain: ids
ChainMaxId == 5
\* SpecChain: the clock stops advancing here
ChainMaxTime == 2
\* SpecRetention: ids
RetentionMaxId == 5
\* SpecRetention: clock
RetentionMaxTime == 2
\* SpecRetention: commit hashes
RetentionMaxHash == 1
\* SpecCreate: ids
CreateMaxId == 4
\* SpecCreate: commit hashes
CreateMaxHash == 2
\* SpecRollback: ids
RollbackMaxId == 4
\* SpecRollback: commit hashes
RollbackMaxHash == 1
\* SpecRoundTrip: settings.maxCheckpoints
RoundTripLimit == 3
\* SpecRoundTrip: ids
RoundTripMaxId == 4
\* SpecRoundTrip: commit hashes
RoundTripMaxHash == 2
\* SpecBackup: ids
BackupMaxId == 4
\* SpecBackup: commit hashes
BackupMaxHash == 1
\* SpecLookup: ids
LookupMaxId == 4
\* SpecLookup: commit hashes
LookupMaxHash == 1
\* SpecReturn: settings.maxCheckpoints
ReturnLimit == 3
\* SpecReturn: ids
ReturnMaxId == 4
\* SpecReturn: commit hashes
ReturnMaxHash == 3
\* SpecScenarioA: ids
ScenarioMaxId == 6
\* SpecScenarioA: commit hashes
ScenarioMaxHash == 2
\* SpecLanes: commits in the list handed to computeLaneLayout
MaxCommits == 4
\* SpecSyncTwice: ids
TwiceMaxId == 5
\* SpecSyncTwice: commit hashes
TwiceMaxHash == 2
\* SpecListed: commits in the list handed to computeLaneLayout, in any order
MaxListed == 3
\* SpecGraph: commits in the window getGraphData fetches
MaxWindow == 3
\* SpecInFlight: createCheckpoint calls suspended at the same time
MaxInFlight == 2
\* SpecInFlight: ids
InFlightMaxId == 4
\* SpecInFlight: commit hashes
InFlightMaxHash == 3
\* SpecSync: ids
SyncMaxId == 5
\* SpecSync: commit hashes
SyncMaxHash == 2
\* SpecSessions: settings.maxCheckpoints
SessionsLimit == 2
\* SpecSessions: ids
SessionsMaxId == 4
\* SpecSessions: the clock
SessionsMaxTime == 2
\* SpecSessions: commit hashes
SessionsMaxHash == 1
\* SpecCleanup: settings.maxCheckpoints
CleanupLimit == 3
\* SpecCleanup: ids
CleanupMaxId == 4
\* SpecCleanup: commit hashes
CleanupMaxHash == 2
\* SpecTravel: ids
TravelMaxId == 4
\* SpecTravel: commit hashes
TravelMaxHash == 4
\* SpecMonitor: the clock stops at this many seconds
MaxClock == 28
\* SpecMonitor: checkAndCommit calls suspended at the same time
MaxChecks == 2
\* SpecOverlap: ids
OverlapMaxId == 6
\* SpecOverlap: commit hashes
OverlapMaxHash == 2
\* SpecSessionChange: settings.maxCheckpoints
ChangeLimit == 4
\* SpecSessionChange: ids
ChangeMaxId == 4
\* SpecSessionChange: commit hashes
ChangeMaxHash == 2
\* SpecRollbackFile: ids
FileMaxId == 3
\* SpecRollbackFile: commit hashes
FileMaxHash == 2

\* --------------------------------------------------------------- constants
\* undefined id / undefined gitCommitHash
NoId == 0
\* undefined previousContent / currentContent
NoContent == 0
\* the literal 'synced'
SyncedSessionId == -1
\* StateMonitor.minTimeBetweenCommits (10000 ms), in seconds
minTimeBetweenCommits == 10
\* StateMonitor.commitDebounceMs (5000 ms), in seconds
commitDebounceMs == 5
\* StateMonitor.commitTimeout = null
NoTimer == 0
\* activeLanes[i] = null: the lane is free
FreeLane == 0
\* indexOf: no such element
NotFound == -1

VARIABLES
    checkpoints,       \* storageData.checkpoints, in array order
    sessions,          \* storageData.sessions, in array order
    activeSessionId,   \* storageData.activeSessionId
    settings,          \* storageData.settings (the fields the store reads)
    nextId,            \* ids handed out so far by generateId()
    now,               \* last value returned by Date.now()
    commits,           \* the repository's checkpoint-tagged commits:
                       \*   [hash, date, words, tree, parent]
    nextHash,          \* commit hashes handed out so far
    head,              \* the commit HEAD points at, NoId before the first commit
    tip,               \* the commit the branch points at
    attached,          \* HEAD is on the branch (FALSE: detached HEAD)
    disk,              \* working-tree files on disk: path -> content
    docs,              \* open editor documents: path -> content, NoContent = not open
    last,              \* the last operation and what it returned
    graph,             \* one call of computeLaneLayout: its input, its locals, its result
    inFlight,          \* the calls that are suspended at an await
    monitor,           \* StateMonitor: its clock, timer, fields and running checks
    detector           \* AIDetector: its snapshots, pending changes, timer and last batches

storeVars == <<checkpoints, sessions, activeSessionId, settings, nextId, now,
               commits, nextHash, head, tip, attached, disk, docs, last,
               inFlight, monitor, detector>>

vars == <<checkpoints, sessions, activeSessionId, settings, nextId, now,
          commits, nextHash, head, tip, attached, disk, docs, last, graph,
          inFlight, monitor, detector>>

\* ------------------------------------------------------------------ paths
PathA == <<"a">>
PathWA == <<"w", "a">>
PathB == <<"b">>
Paths == {PathA, PathWA, PathB}
Contents == 1..2

EndsWith(s, suffix) ==
    /\ Len(suffix) <= Len(s)
    /\ SubSeq(s, Len(s) - Len(suffix) + 1, Len(s)) = suffix

\* --------------------------------------------------------- sequence helpers
\* F applied to the value of x, x evaluated once
Bind(x, F(_)) == CHOOSE result \in {F(v) : v \in {x}} : TRUE

Range(s) == {s[i] : i \in 1..Len(s)}

\* index of the first element satisfying p, 0 when there is none (findIndex + 1)
FindIndex(s, p(_)) ==
    IF \E i \in 1..Len(s) : p(s[i])
    THEN CHOOSE i \in 1..Len(s) : p(s[i]) /\ \A j \in 1..(i - 1) : ~p(s[j])
    ELSE 0

RemoveAt(s, i) == SubSeq(s, 1, i - 1) \o SubSeq(s, i + 1, Len(s))

\* Array.prototype.sort is stable: equal keys keep their array order.
RECURSIVE InsertAsc(_, _)
InsertAsc(x, sorted) ==
    IF sorted = <<>> THEN <<x>>
    ELSE IF Head(sorted).timestamp <= x.timestamp
         THEN <<Head(sorted)>> \o InsertAsc(x, Tail(sorted))
         ELSE <<x>> \o sorted

RECURSIVE SortAscByTimestamp(_)
SortAscByTimestamp(s) ==
    IF s = <<>> THEN <<>>
    ELSE InsertAsc(s[Len(s)], SortAscByTimestamp(SubSeq(s, 1, Len(s) - 1)))

RECURSIVE InsertDesc(_, _)
InsertDesc(x, sorted) ==
    IF sorted = <<>> THEN <<x>>
    ELSE IF Head(sorted).timestamp >= x.timestamp
         THEN <<Head(sorted)>> \o InsertDesc(x, Tail(sorted))
         ELSE <<x>> \o sorted

RECURSIVE SortDescByTimestamp(_)
SortDescByTimestamp(s) ==
    IF s = <<>> THEN <<>>
    ELSE InsertDesc(s[Len(s)], SortDescByTimestamp(SubSeq(s, 1, Len(s) - 1)))

\* -------------------------------------------------------- the store record
\* The operations of CheckpointManager are functions from store to store;
\* a store st carries everything they read or write.
\* one entry of the log of what a call did, in the order it did it:
\*   "saved"     createCheckpoint persisted the store with checkpoint id in it
\*   "evicted"   createCheckpoint persisted the store without checkpoint id
\*   "reset"     git reset moved the branch to commit id
\*   "checkout" / "checkoutFailed"   git checkout <hash> -- path
\*   "write"     the content of path was replaced
Event(kind, id, path) == [kind |-> kind, id |-> id, path |-> path]

\* one event as a listener receives it (_onSessionChanged, _onCheckpointCreated,
\* _onCheckpointDeleted .fire): the emitter and the id fired, NoId for undefined
Delivered(event, id) == [event |-> event, id |-> id]

Store ==
    [checkpoints |-> checkpoints, sessions |-> sessions,
     activeSessionId |-> activeSessionId, settings |-> settings,
     nextId |-> nextId, now |-> now, commits |-> commits,
     nextHash |-> nextHash, head |-> head, tip |-> tip, attached |-> attached,
     disk |-> disk, docs |-> docs,
     ret |-> NoId, before |-> <<>>, made |-> NoId, log |-> <<>>, fired |-> <<>>]

DEFAULT_SETTINGS ==
    [maxCheckpoints |-> MaxCheckpointsLimit, enableGit |-> TRUE,
     createSessionBranch |-> FALSE]

\* variant: an id that is not stored resolves to the newest checkpoint
getCheckpoint_orNewest(st, id) ==
    IF \E k \in 1..Len(st.checkpoints) : st.checkpoints[k].id = id
    THEN FindIndex(st.checkpoints, LAMBDA cp : cp.id = id)
    ELSE Len(st.checkpoints)

\* getCheckpoint(id) as an index into the array, 0 for `undefined`
getCheckpoint(st, id) == FindIndex(st.checkpoints, LAMBDA cp : cp.id = id)

getActiveSessionIndex(st) ==
    IF st.activeSessionId = NoId THEN 0
    ELSE FindIndex(st.sessions, LAMBDA s : s.id = st.activeSessionId)

\* variant: the sort comparator reversed (a.timestamp - b.timestamp)
getSessionCheckpoints_oldestFirst(st) ==
    LET sid == st.activeSessionId
    IN IF sid = NoId THEN <<>>
       ELSE SortAscByTimestamp(
                SelectSeq(st.checkpoints, LAMBDA cp : cp.sessionId = sid))

getSessionCheckpoints(st) ==
    LET sid == st.activeSessionId
    IN IF sid = NoId THEN <<>>
       ELSE SortDescByTimestamp(
                SelectSeq(st.checkpoints, LAMBDA cp : cp.sessionId = sid))

\* variant: the children of the deleted checkpoint keep their parentId
deleteCheckpoint_noRelink(st, id) ==
    LET index == FindIndex(st.checkpoints, LAMBDA cp : cp.id = id)
    IN IF index = 0 THEN [st EXCEPT !.ret = FALSE]
       ELSE
         LET checkpoint == st.checkpoints[index]
             si == FindIndex(st.sessions, LAMBDA s : s.id = checkpoint.sessionId)
             sess ==
                 IF si = 0 THEN st.sessions
                 ELSE [st.sessions EXCEPT ![si].checkpointIds =
                          SelectSeq(@, LAMBDA cpId : cpId # id)]
         IN [st EXCEPT !.checkpoints = RemoveAt(st.checkpoints, index),
                       !.sessions = sess,
                       !.ret = TRUE,
                       !.before = st.checkpoints,
                       !.fired = Append(@, Delivered("onCheckpointDeleted", id))]

\* variant: the session's totalFilesChanged is recounted without the deleted
\* checkpoint's files
deleteCheckpoint_recounts(st, id) ==
    LET index == FindIndex(st.checkpoints, LAMBDA cp : cp.id = id)
    IN IF index = 0 THEN [st EXCEPT !.ret = FALSE]
       ELSE
         LET checkpoint == st.checkpoints[index]
             si == FindIndex(st.sessions, LAMBDA s : s.id = checkpoint.sessionId)
             sess ==
                 IF si = 0 THEN st.sessions
                 ELSE [st.sessions EXCEPT
                          ![si].checkpointIds = SelectSeq(@, LAMBDA cpId : cpId # id),
                          ![si].totalFilesChanged = @ - Len(checkpoint.changedFiles)]
         IN [st EXCEPT !.checkpoints = RemoveAt(st.checkpoints, index),
                       !.sessions = sess,
                       !.ret = TRUE,
                       !.before = st.checkpoints,
                       !.fired = Append(@, Delivered("onCheckpointDeleted", id))]

\* deleteCheckpoint(id): the store after the call; st.ret is the returned boolean
deleteCheckpoint(st, id) ==
    LET index == FindIndex(st.checkpoints, LAMBDA cp : cp.id = id)
    IN IF index = 0 THEN [st EXCEPT !.ret = FALSE]
       ELSE
         LET checkpoint == st.checkpoints[index]
             reparented ==
                 [i \in 1..Len(st.checkpoints) |->
                     IF st.checkpoints[i].parentId = id
                     THEN [st.checkpoints[i] EXCEPT !.parentId = checkpoint.parentId]
                     ELSE st.checkpoints[i]]
             si == FindIndex(st.sessions, LAMBDA s : s.id = checkpoint.sessionId)
             sess ==
                 IF si = 0 THEN st.sessions
                 ELSE [st.sessions EXCEPT ![si].checkpointIds =
                          SelectSeq(@, LAMBDA cpId : cpId # id)]
         IN [st EXCEPT !.checkpoints = RemoveAt(reparented, index),
                       !.sessions = sess,
                       !.ret = TRUE,
                       !.before = st.checkpoints,
                       !.fired = Append(@, Delivered("onCheckpointDeleted", id))]

RECURSIVE deleteAll(_, _)
deleteAll(st, ids) ==
    IF ids = <<>> THEN st
    ELSE deleteAll(deleteCheckpoint(st, Head(ids)), Tail(ids))

\* variant: the loop does not look at cp.starred
RECURSIVE toDeleteList_ignoresStarred(_, _, _, _)
toDeleteList_ignoresStarred(sorted, length, maxCheckpoints, toDelete) ==
    IF sorted = <<>> THEN toDelete
    ELSE IF length - Len(toDelete) <= maxCheckpoints THEN toDelete
    ELSE toDeleteList_ignoresStarred(Tail(sorted), length, maxCheckpoints,
                                     Append(toDelete, Head(sorted).id))

\* the toDelete list built by the loop of enforceCheckpointLimit
RECURSIVE toDeleteList(_, _, _, _)
toDeleteList(sorted, length, maxCheckpoints, toDelete) ==
    IF sorted = <<>> THEN toDelete
    ELSE IF length - Len(toDelete) <= maxCheckpoints THEN toDelete
    ELSE IF ~Head(sorted).starred
         THEN toDeleteList(Tail(sorted), length, maxCheckpoints,
                           Append(toDelete, Head(sorted).id))
         ELSE toDeleteList(Tail(sorted), length, maxCheckpoints, toDelete)

\* variant: the candidates are sorted newest first
enforceCheckpointLimit_newestFirst(st) ==
    LET maxCheckpoints == st.settings.maxCheckpoints
    IN IF Len(st.checkpoints) <= maxCheckpoints THEN st
       ELSE LET toDelete == toDeleteList(SortDescByTimestamp(st.checkpoints),
                                         Len(st.checkpoints), maxCheckpoints, <<>>)
            IN deleteAll(st, toDelete)

enforceCheckpointLimit(st) ==
    LET maxCheckpoints == st.settings.maxCheckpoints
    IN IF Len(st.checkpoints) <= maxCheckpoints THEN st
       ELSE LET toDelete == toDeleteList(SortAscByTimestamp(st.checkpoints),
                                         Len(st.checkpoints), maxCheckpoints, <<>>)
            IN deleteAll(st, toDelete)

\* ------------------------------------------------------ createCheckpoint
\* mapChangeType: 'renamed' and anything unknown become Modified
mapChangeType(gitChangeType) ==
    CASE gitChangeType = "added" -> "Added"
      [] gitChangeType = "deleted" -> "Deleted"
      [] gitChangeType = "renamed" -> "Modified"
      [] OTHER -> "Modified"

\* originalFiles.find(f => f.path.endsWith(g.path) || g.path.endsWith(f.path))
findOriginal(originalFiles, gitPath) ==
    FindIndex(originalFiles,
              LAMBDA f : EndsWith(f.path, gitPath) \/ EndsWith(gitPath, f.path))

syncChangedFilesWithGit(originalFiles, gitFiles) ==
    [k \in 1..Len(gitFiles) |->
        LET oi == findOriginal(originalFiles, gitFiles[k].path)
        IN [path |-> gitFiles[k].path,
            changeType |-> mapChangeType(gitFiles[k].changeType),
            previousContent |-> IF oi = 0 THEN NoContent
                                ELSE originalFiles[oi].previousContent,
            currentContent |-> IF oi = 0 THEN NoContent
                               ELSE originalFiles[oi].currentContent]]

convertToChangedFiles(filePaths) ==
    [k \in 1..Len(filePaths) |->
        [path |-> filePaths[k], changeType |-> "Modified",
         previousContent |-> NoContent, currentContent |-> NoContent]]

\* generateCheckpointName: the emoji of the type and the label of the source
\* (a name is modelled by the set of keywords it contains)
typeEmoji(type) ==
    CASE type = "Auto" -> "cycle"
      [] type = "Manual" -> "floppy"
      [] type = "AIGenerated" -> "robot"
      [] type = "SessionStart" -> "gamepad"
      [] type = "AutoSave" -> "clock"

sourceLabel(source) ==
    CASE source = "User" -> "Manual"
      [] source = "Copilot" -> "Copilot"
      [] source = "Claude" -> "Claude"
      [] source = "Cline" -> "Cline"
      [] source = "OtherAI" -> "AI"
      [] source = "AutoSave" -> "AutoSave"
      [] source = "FileWatcher" -> "Watcher"
      [] source = "Unknown" -> "Unknown"

generateCheckpointName(type, source) == {typeEmoji(type), sourceLabel(source)}

\* What the version-control calls of one createCheckpoint do:
\*   isRepo    isGitRepository()
\*   statusThrows  getDetailedChangedFiles() rejects
\*   status    the list returned by getDetailedChangedFiles()
\*   commit    "throw" | "fail" | "nohash" | "ok"  (stageAndCommitAll)
\*   committed commitResult.changedFiles
gitReached(st, g) == st.settings.enableGit /\ g.isRepo

gitCommitted(st, g) ==
    gitReached(st, g) /\ ~g.statusThrows /\ g.commit = "ok"

\* lines 159-251 once an active session exists
createCheckpointCore(st, type, source, changedFiles, name, g, d) ==
    LET id == st.nextId + 1
        committed == gitCommitted(st, g)
        gitCommitHash == IF committed THEN st.nextHash + 1 ELSE NoId
        afterStatus ==
            IF gitReached(st, g) /\ ~g.statusThrows /\ Len(g.status) > 0
            THEN syncChangedFilesWithGit(changedFiles, g.status)
            ELSE changedFiles
        actualChangedFiles ==
            IF committed /\ Len(g.committed) > 0
            THEN convertToChangedFiles(g.committed)
            ELSE afterStatus
        sessionCheckpoints == getSessionCheckpoints(st)
        parentId == IF Len(sessionCheckpoints) > 0
                    THEN sessionCheckpoints[1].id ELSE NoId
        si == getActiveSessionIndex(st)
        checkpoint ==
            [id |-> id, name |-> name,
             timestamp |-> st.now + d, gitCommitHash |-> gitCommitHash,
             type |-> type, source |-> source,
             changedFiles |-> actualChangedFiles,
             sessionId |-> st.activeSessionId, parentId |-> parentId,
             starred |-> FALSE]
        pushed ==
            [st EXCEPT
                !.nextId = id,
                !.now = st.now + d,
                !.nextHash = IF committed THEN st.nextHash + 1 ELSE @,
                !.commits = IF committed
                            THEN @ \cup {[hash |-> gitCommitHash, date |-> st.now,
                                          words |-> name, tree |-> st.disk,
                                          parent |-> st.head]}
                            ELSE @,
                !.head = IF committed THEN gitCommitHash ELSE @,
                !.tip = IF committed /\ st.attached THEN gitCommitHash ELSE @,
                !.checkpoints = Append(@, checkpoint),
                !.sessions =
                    IF si = 0 THEN @
                    ELSE [@ EXCEPT
                            ![si].checkpointIds = Append(@, id),
                            ![si].totalFilesChanged = @ + Len(actualChangedFiles)]]
    IN Bind(enforceCheckpointLimit(pushed), LAMBDA enforced :
               LET i == getCheckpoint(enforced, id)
               IN [enforced EXCEPT
                      !.ret = IF i = 0 THEN checkpoint ELSE enforced.checkpoints[i],
                      !.before = st.checkpoints,
                      !.made = checkpoint,
                      !.log = Append(@, Event(IF i = 0 THEN "evicted" ELSE "saved",
                                              id, <<>>)),
                      !.fired = Append(@, Delivered("onCheckpointCreated", id))])

\* variant: the session record is left untouched, only activeSessionId is cleared
endSession_leavesActive(st) ==
    LET si == getActiveSessionIndex(st)
    IN IF si = 0 THEN st
       ELSE [st EXCEPT !.activeSessionId = NoId,
                       !.fired = Append(@, Delivered("onSessionChanged", NoId))]

endSession(st) ==
    LET si == getActiveSessionIndex(st)
    IN IF si = 0 THEN st
       ELSE [st EXCEPT !.sessions[si].endTime = st.now,
                       !.sessions[si].isActive = FALSE,
                       !.activeSessionId = NoId,
                       !.fired = Append(@, Delivered("onSessionChanged", NoId))]

\* variant: the session is opened without a SessionStart checkpoint
startSession_noCheckpoint(st, g, d) ==
    LET ended == IF st.activeSessionId # NoId THEN endSession(st) ELSE st
        id == ended.nextId + 1
    IN [ended EXCEPT !.nextId = id,
                     !.sessions = Append(@, [id |-> id, endTime |-> NoId,
                                             isActive |-> TRUE, branchName |-> NoId,
                                             checkpointIds |-> <<>>,
                                             totalFilesChanged |-> 0]),
                     !.activeSessionId = id,
                     !.before = st.checkpoints,
                     !.made = NoId,
                     !.fired = Append(@, Delivered("onSessionChanged", id))]

\* startSession: g and d belong to the SessionStart checkpoint it creates
startSession(st, g, d) ==
    LET ended == IF st.activeSessionId # NoId THEN endSession(st) ELSE st
        id == ended.nextId + 1
        branchName == IF ended.settings.createSessionBranch /\ g.isRepo
                      THEN id ELSE NoId
        session == [id |-> id, endTime |-> NoId, isActive |-> TRUE,
                    branchName |-> branchName, checkpointIds |-> <<>>,
                    totalFilesChanged |-> 0]
        opened == [ended EXCEPT !.nextId = id,
                                !.sessions = Append(@, session),
                                !.activeSessionId = id]
    IN Bind(Bind(opened, LAMBDA sessionOpened :
                    createCheckpointCore(sessionOpened, "SessionStart", "User", <<>>,
                                         {"gamepad", "Session Started"}, g, d)),
            LAMBDA started :
                [started EXCEPT
                    !.fired = Append(@, Delivered("onSessionChanged", id))])

\* createCheckpoint: g0/d0 are used only when a session has to be started first
createCheckpoint(st, type, source, changedFiles, name, g0, d0, g, d) ==
    Bind(IF st.activeSessionId = NoId THEN startSession(st, g0, d0) ELSE st,
         LAMBDA ready :
             createCheckpointCore(ready, type, source, changedFiles, name, g, d))

\* --------------------------------------------- startSession, await by await
\* startSession from line 597 on: the session is pushed and made the active
\* one, and the call suspends at saveStorageData (line 612)
pushSession(st, call, branchName) ==
    [st EXCEPT !.sessions = Append(@, [id |-> call.id, endTime |-> NoId,
                                       isActive |-> TRUE, branchName |-> branchName,
                                       checkpointIds |-> <<>>,
                                       totalFilesChanged |-> 0]),
               !.activeSessionId = call.id,
               !.ret = [call EXCEPT !.await = "saveSession"]]

\* startSession from line 589 on: the id is drawn; with createSessionBranch
\* the call suspends at isGitRepository (line 593)
openSession(st, call) ==
    LET id == st.nextId + 1
        drawn == [st EXCEPT !.nextId = id]
    IN IF st.settings.createSessionBranch
       THEN [drawn EXCEPT !.ret = [call EXCEPT !.id = id, !.await = "isGitRepository"]]
       ELSE pushSession(drawn, [call EXCEPT !.id = id], NoId)

\* startSession from its entry to its first suspension: with an active session
\* that is endSession up to its saveStorageData (lines 630-638)
beginStartSession(st) ==
    LET call == [op |-> "startSession", id |-> NoId, await |-> "endSession"]
        si == getActiveSessionIndex(st)
    IN IF st.activeSessionId # NoId /\ si # 0
       THEN [st EXCEPT !.sessions[si].endTime = st.now,
                       !.sessions[si].isActive = FALSE,
                       !.activeSessionId = NoId,
                       !.ret = call]
       ELSE openSession(st, call)

\* startSession from the await that has resolved to the next one, or to its
\* return (await "returned"); g, d: the git answers and the time for the
\* SessionStart checkpoint (g0, d0 for a session createCheckpoint has to start)
resumeStartSession(st, call, g0, d0, g, d) ==
    IF call.await = "endSession"
    THEN openSession([st EXCEPT !.fired = Append(@, Delivered("onSessionChanged", NoId))],
                     call)
    ELSE IF call.await = "isGitRepository"
    THEN IF g.isRepo THEN [st EXCEPT !.ret = [call EXCEPT !.await = "createBranch"]]
         ELSE pushSession(st, call, NoId)
    ELSE IF call.await = "createBranch"
    THEN pushSession(st, call, call.id)
    ELSE Bind(createCheckpoint(st, "SessionStart", "User", <<>>,
                               {"gamepad", "Session Started"}, g0, d0, g, d),
              LAMBDA started :
                  [started EXCEPT
                      !.fired = Append(@, Delivered("onSessionChanged", call.id)),
                      !.ret = [call EXCEPT !.await = "returned"]])

\* createCheckpoint from its entry to its first suspension (lines 159-171), for
\* a store with an active session: the call holds its id and its arguments
\* while it waits for git
beginCreateCheckpoint(st, type, source, changedFiles, name) ==
    [st EXCEPT !.nextId = @ + 1,
               !.ret = [id |-> st.nextId + 1, type |-> type, source |-> source,
                        changedFiles |-> changedFiles, name |-> name,
                        await |-> "git"]]

\* createCheckpoint from the answers of git to the suspension at
\* saveStorageData (lines 171-235), with the id the call took at line 164
resumeCreateCheckpoint(st, call, g, d) ==
    Bind(createCheckpointCore([st EXCEPT !.nextId = call.id - 1], call.type,
                              call.source, call.changedFiles, call.name, g, d),
         LAMBDA stored : [stored EXCEPT !.nextId = st.nextId])

toggleStarred(st, id) ==
    LET i == getCheckpoint(st, id)
    IN IF i = 0 THEN [st EXCEPT !.ret = FALSE]
       ELSE [st EXCEPT !.checkpoints[i].starred = ~@,
                       !.ret = ~st.checkpoints[i].starred]

\* ------------------------------------------------------------ syncWithGit
\* A commit message is modelled by the set of keywords it contains.
inferTypeFromMessage(words) ==
    IF "AutoSave" \in words \/ "clock" \in words THEN "Auto"
    ELSE IF "Manual" \in words \/ "floppy" \in words THEN "Manual"
    ELSE "AIGenerated"

inferSourceFromMessage(words) ==
    IF "Copilot" \in words \/ "robot" \in words THEN "Copilot"
    ELSE IF "Cline" \in words THEN "Cline"
    ELSE IF "Claude" \in words THEN "Claude"
    ELSE IF "AutoSave" \in words \/ "clock" \in words THEN "AutoSave"
    ELSE IF "Manual" \in words \/ "floppy" \in words THEN "User"
    ELSE "Unknown"

\* the log of checkpoint-tagged commits, newest first
RECURSIVE commitLog(_)
commitLog(cs) ==
    IF cs = {} THEN <<>>
    ELSE LET c == CHOOSE x \in cs : \A y \in cs : y.hash <= x.hash
         IN <<c>> \o commitLog(cs \ {c})

getVibeGuardianCommits(st) == commitLog(st.commits)

RECURSIVE addMissing(_, _, _)
addMissing(st, gitCommits, existingHashes) ==
    IF gitCommits = <<>> THEN st
    ELSE LET commit == Head(gitCommits)
         IN IF commit.hash \in existingHashes
            THEN addMissing(st, Tail(gitCommits), existingHashes)
            ELSE LET checkpoint ==
                         [id |-> st.nextId + 1, name |-> commit.words,
                          timestamp |-> commit.date,
                          gitCommitHash |-> commit.hash,
                          type |-> inferTypeFromMessage(commit.words),
                          source |-> inferSourceFromMessage(commit.words),
                          changedFiles |-> <<>>,
                          sessionId |-> IF st.activeSessionId # NoId
                                        THEN st.activeSessionId ELSE SyncedSessionId,
                          parentId |-> NoId, starred |-> FALSE]
                 IN addMissing([st EXCEPT !.nextId = @ + 1,
                                          !.checkpoints = Append(@, checkpoint)],
                               Tail(gitCommits), existingHashes)

\* variant: checkpoints whose commit has left the log are kept
syncWithGit_keepsStale(st) ==
    LET gitCommits == getVibeGuardianCommits(st)
        existingHashes ==
            {cp.gitCommitHash : cp \in
                {c \in Range(st.checkpoints) : c.gitCommitHash # NoId}}
        added == addMissing(st, gitCommits, existingHashes)
    IN [added EXCEPT
           !.ret = [synced |-> Len(gitCommits),
                    added |-> Len(added.checkpoints) - Len(st.checkpoints),
                    removed |-> 0],
           !.before = st.checkpoints]

\* variant: every commit of the log is taken for missing
syncWithGit_addsAgain(st) ==
    LET gitCommits == getVibeGuardianCommits(st)
        added == addMissing(st, gitCommits, {})
        gitHashSet == {c.hash : c \in Range(gitCommits)}
        toRemove ==
            SelectSeq(added.checkpoints,
                      LAMBDA cp : cp.gitCommitHash # NoId
                                  /\ cp.gitCommitHash \notin gitHashSet)
        ids == [k \in 1..Len(toRemove) |-> toRemove[k].id]
    IN [deleteAll(added, ids) EXCEPT
           !.ret = [synced |-> Len(gitCommits),
                    added |-> Len(added.checkpoints) - Len(st.checkpoints),
                    removed |-> Len(toRemove)],
           !.before = st.checkpoints]

syncWithGit(st) ==
    LET gitCommits == getVibeGuardianCommits(st)
        existingHashes ==
            {cp.gitCommitHash : cp \in
                {c \in Range(st.checkpoints) : c.gitCommitHash # NoId}}
        added == addMissing(st, gitCommits, existingHashes)
        gitHashSet == {c.hash : c \in Range(gitCommits)}
        toRemove ==
            SelectSeq(added.checkpoints,
                      LAMBDA cp : cp.gitCommitHash # NoId
                                  /\ cp.gitCommitHash \notin gitHashSet)
        ids == [k \in 1..Len(toRemove) |-> toRemove[k].id]
    IN [deleteAll(added, ids) EXCEPT
           !.ret = [synced |-> Len(gitCommits),
                    added |-> Len(added.checkpoints) - Len(st.checkpoints),
                    removed |-> Len(toRemove)],
           !.before = st.checkpoints]

\* ------------------------------------------------------ validateCheckpoint
\* commitExists: the hash names a commit of the repository
commitExists(cs, hash) == \E c \in cs : c.hash = hash

getCommit(cs, hash) == CHOOSE c \in cs : c.hash = hash

NoTree == [p \in Paths |-> NoContent]

treeOf(cs, hash) ==
    IF hash # NoId /\ commitExists(cs, hash) THEN getCommit(cs, hash).tree ELSE NoTree

\* GitManager.getFileAtCommit(filePath, commitHash): NoContent for undefined
getFileAtCommit(st, isRepo, filePath, commitHash) ==
    IF ~isRepo THEN NoContent ELSE treeOf(st.commits, commitHash)[filePath]

\* checkFileAccessible: on disk, or readable from the checkpoint's commit
checkFileAccessible(st, isRepo, filePath, commitHash) ==
    \/ st.disk[filePath] # NoContent
    \/ (commitHash # NoId
        /\ getFileAtCommit(st, isRepo, filePath, commitHash) # NoContent)

validateCheckpoint(st, isRepo, checkpoint) ==
    LET commitIssue ==
            checkpoint.gitCommitHash # NoId
            /\ ~(isRepo /\ commitExists(st.commits, checkpoint.gitCommitHash))
        hasStoredContent ==
            \E k \in 1..Len(checkpoint.changedFiles) :
                checkpoint.changedFiles[k].previousContent # NoContent
        contentIssue == checkpoint.gitCommitHash = NoId /\ ~hasStoredContent
        fileIssues ==
            {k \in 1..Len(checkpoint.changedFiles) :
                ~checkFileAccessible(st, isRepo, checkpoint.changedFiles[k].path,
                                     checkpoint.gitCommitHash)}
    IN [valid |-> ~commitIssue /\ ~contentIssue /\ fileIssues = {},
        issues |-> (IF commitIssue THEN {<<"commit not found", 0>>} ELSE {})
                   \cup (IF contentIssue THEN {<<"no commit and no content", 0>>}
                         ELSE {})
                   \cup {<<"file not in current state", k>> : k \in fileIssues},
        canRollback |-> ~commitIssue /\ ~contentIssue]

\* variant: the loop removes a checkpoint only when it cannot be rolled back to
RECURSIVE cleanupInvalidCheckpoints_ifCannotRollback(_, _, _, _, _)
cleanupInvalidCheckpoints_ifCannotRollback(st, isRepo, snapshot, removed, details) ==
    IF snapshot = <<>>
    THEN [st EXCEPT !.ret = [removed |-> Len(removed), details |-> details]]
    ELSE LET checkpoint == Head(snapshot)
             validation == validateCheckpoint(st, isRepo, checkpoint)
         IN IF ~validation.canRollback
            THEN cleanupInvalidCheckpoints_ifCannotRollback(
                     deleteCheckpoint(st, checkpoint.id), isRepo, Tail(snapshot),
                     Append(removed, checkpoint.id),
                     Append(details, [name |-> checkpoint.name,
                                      issues |-> validation.issues]))
            ELSE cleanupInvalidCheckpoints_ifCannotRollback(
                     st, isRepo, Tail(snapshot), removed, details)

\* cleanupInvalidCheckpoints: the loop over the copy of the checkpoint array
\* (snapshot), each checkpoint validated against the store as it is at its turn;
\* st.ret is the returned { removed, details }
RECURSIVE cleanupInvalidCheckpoints(_, _, _, _, _)
cleanupInvalidCheckpoints(st, isRepo, snapshot, removed, details) ==
    IF snapshot = <<>>
    THEN [st EXCEPT !.ret = [removed |-> Len(removed), details |-> details]]
    ELSE LET checkpoint == Head(snapshot)
             validation == validateCheckpoint(st, isRepo, checkpoint)
         IN IF ~validation.valid
            THEN cleanupInvalidCheckpoints(
                     deleteCheckpoint(st, checkpoint.id), isRepo, Tail(snapshot),
                     Append(removed, checkpoint.id),
                     Append(details, [name |-> checkpoint.name,
                                      issues |-> validation.issues]))
            ELSE cleanupInvalidCheckpoints(st, isRepo, Tail(snapshot), removed, details)

\* ------------------------------------------------------------- repository
\* GitManager.getFileAtCommit(filePath, `${commitHash}^`): NoContent for undefined
getFileAtParent(st, isRepo, filePath, commitHash) ==
    IF ~isRepo \/ ~commitExists(st.commits, commitHash) THEN NoContent
    ELSE treeOf(st.commits, getCommit(st.commits, commitHash).parent)[filePath]

\* GitManager.rollbackToCommit: git reset --hard / --soft, false when git fails
rollbackToCommit(st, isRepo, commitHash, hard, gitFails) ==
    LET ok == isRepo /\ ~gitFails /\ commitExists(st.commits, commitHash)
        target == treeOf(st.commits, commitHash)
        tracked == treeOf(st.commits, st.head)
    IN IF ~ok THEN [st EXCEPT !.ret = FALSE]
       ELSE [st EXCEPT
               !.log = Append(@, Event("reset", commitHash, <<>>)),
               !.head = commitHash,
               !.tip = IF st.attached THEN commitHash ELSE @,
               !.disk = IF hard
                        THEN [p \in Paths |->
                                IF target[p] # NoContent THEN target[p]
                                ELSE IF tracked[p] # NoContent THEN NoContent
                                ELSE st.disk[p]]
                        ELSE @,
               !.ret = TRUE]

PathSeq == <<PathA, PathWA, PathB>>

\* GitManager.restoreToCommit: git checkout <hash> -- <file> for every file of
\* git diff <hash> HEAD; ret = [success, restoredFiles, errors]
RECURSIVE checkoutFiles(_, _, _, _, _)
checkoutFiles(st, files, target, restoredFiles, errors) ==
    IF files = <<>>
    THEN [st EXCEPT !.ret = [success |-> Len(restoredFiles) > 0,
                             restoredFiles |-> restoredFiles, errors |-> errors]]
    ELSE LET file == Head(files)
         IN IF target[file] # NoContent
            THEN checkoutFiles([st EXCEPT
                                   !.disk[file] = target[file],
                                   !.log = Append(@, Event("checkout", NoId, file))],
                               Tail(files), target, Append(restoredFiles, file), errors)
            ELSE checkoutFiles([st EXCEPT
                                   !.log = Append(@, Event("checkoutFailed", NoId, file))],
                               Tail(files), target, restoredFiles,
                               Append(errors, <<"Failed to restore", file>>))

restoreToCommit(st, isRepo, commitHash, gitFails) ==
    IF ~isRepo
    THEN [st EXCEPT !.ret = [success |-> FALSE, restoredFiles |-> <<>>,
                             errors |-> << <<"Git not initialized", <<>> >> >>]]
    ELSE IF gitFails \/ ~commitExists(st.commits, commitHash)
                    \/ ~commitExists(st.commits, st.head)
    THEN [st EXCEPT !.ret = [success |-> FALSE, restoredFiles |-> <<>>,
                             errors |-> << <<"Failed to get diff", <<>> >> >>]]
    ELSE LET target == treeOf(st.commits, commitHash)
             current == treeOf(st.commits, st.head)
             files == SelectSeq(PathSeq, LAMBDA p : target[p] # current[p])
         IN checkoutFiles(st, files, target, <<>>, <<>>)

\* --------------------------------------------------------- RollbackManager
isDirty(st, p) == st.docs[p] # NoContent /\ st.docs[p] # st.disk[p]

getCurrentChangedFiles(st) ==
    LET dirty == SelectSeq(PathSeq, LAMBDA p : isDirty(st, p))
    IN [k \in 1..Len(dirty) |->
           [path |-> dirty[k], changeType |-> "modified",
            previousContent |-> NoContent, currentContent |-> st.docs[dirty[k]]]]

\* restoreFileContent: an open document is edited in place, else the file is written
restoreFileContent(st, filePath, content) ==
    IF st.docs[filePath] # NoContent
    THEN [st EXCEPT !.docs[filePath] = content,
                    !.log = Append(@, Event("write", NoId, filePath))]
    ELSE [st EXCEPT !.disk[filePath] = content,
                    !.log = Append(@, Event("write", NoId, filePath))]

\* refreshAllOpenFiles: every open document is reverted to what is on disk
refreshAllOpenFiles(st) ==
    [st EXCEPT !.docs = [p \in Paths |->
                            IF st.docs[p] # NoContent /\ st.disk[p] # NoContent
                            THEN st.disk[p] ELSE st.docs[p]]]

RollbackResult(success, message, filesRestored, filesNotRestored, errors) ==
    [success |-> success, message |-> message, filesRestored |-> filesRestored,
     filesNotRestored |-> filesNotRestored, errors |-> errors]

\* the fallback loop of rollback (lines 794-817); ret = [filesRestored, filesNotRestored]
RECURSIVE replayFiles(_, _, _, _, _, _)
replayFiles(st, files, commitHash, r, filesRestored, filesNotRestored) ==
    IF files = <<>>
    THEN [st EXCEPT !.ret = [filesRestored |-> filesRestored,
                             filesNotRestored |-> filesNotRestored]]
    ELSE LET file == Head(files)
             content == IF file.previousContent # NoContent THEN file.previousContent
                        ELSE IF commitHash # NoId
                        THEN getFileAtParent(st, r.g.isRepo, file.path, commitHash)
                        ELSE NoContent
             writeThrows == st.docs[file.path] = NoContent /\ file.path \in r.writeThrows
         IN IF content # NoContent /\ ~writeThrows
            THEN replayFiles(restoreFileContent(st, file.path, content), Tail(files),
                             commitHash, r, Append(filesRestored, file.path),
                             filesNotRestored)
            ELSE replayFiles(st, Tail(files), commitHash, r, filesRestored,
                             Append(filesNotRestored, file.path))

\* the version-control branch of rollback (lines 749-788);
\* ret = [success, restoredFiles, errors]
gitRollback(st, checkpoint, r) ==
    Bind(IF r.method = "hard"
         THEN rollbackToCommit(st, TRUE, checkpoint.gitCommitHash, TRUE, r.gitFails)
         ELSE IF r.method = "soft"
         THEN rollbackToCommit(st, TRUE, checkpoint.gitCommitHash, FALSE, r.gitFails)
         ELSE restoreToCommit(st, TRUE, checkpoint.gitCommitHash, r.gitFails),
         LAMBDA op :
    LET success == IF r.method = "checkout" THEN op.ret.success ELSE op.ret
        restoredFiles == IF r.method = "hard" THEN << <<"All files (hard reset)">> >>
                         ELSE IF r.method = "soft" THEN << <<"All files (soft reset)">> >>
                         ELSE op.ret.restoredFiles
        errors == IF r.method = "checkout" THEN op.ret.errors ELSE <<>>
    IN IF success
       THEN IF r.refreshThrows
            THEN [op EXCEPT !.ret = [success |-> FALSE, restoredFiles |-> restoredFiles,
                    errors |-> Append(errors, <<"Git rollback failed", <<>> >>)]]
            ELSE [refreshAllOpenFiles(op) EXCEPT
                    !.ret = [success |-> TRUE, restoredFiles |-> restoredFiles,
                             errors |-> errors]]
       ELSE [op EXCEPT !.ret = [success |-> FALSE, restoredFiles |-> restoredFiles,
                errors |-> Append(errors, <<"Git operation returned false", <<>> >>)]])

\* rollback(checkpointId, options) (lines 620-840); r carries the options, the
\* answers of the dialogs and the outcomes of the calls it makes
rollback(st, checkpointId, r) ==
    LET ci == getCheckpoint(st, checkpointId)
    IN
    IF ci = 0
    THEN [st EXCEPT !.ret = RollbackResult(FALSE, "Checkpoint not found", <<>>, <<>>,
                                << <<"Checkpoint not found", <<>> >> >>)]
    ELSE IF ~r.skipConfirmation /\ r.confirm \in {"dismissed", "Cancel"}
    THEN [st EXCEPT !.ret = RollbackResult(FALSE, "Rollback cancelled by user",
                                           <<>>, <<>>, <<>>)]
    ELSE IF ~r.skipConfirmation /\ r.confirm = "View Diff First"
            /\ r.confirmAgain # "Yes, Rollback"
    THEN [st EXCEPT !.ret = RollbackResult(FALSE, "Rollback cancelled after diff preview",
                                           <<>>, <<>>, <<>>)]
    ELSE
    LET checkpoint == st.checkpoints[ci]
        useGit == checkpoint.gitCommitHash # NoId /\ r.g.isRepo
    IN
    Bind(IF r.createBackup
         THEN createCheckpoint(st, checkpoint.type, checkpoint.source,
                               getCurrentChangedFiles(st),
                               {"Backup before rollback"} \cup checkpoint.name,
                               r.g0, r.d0, r.g, r.d)
         ELSE st,
         LAMBDA backed :
    IF useGit /\ r.method = "dismissed"
    THEN [backed EXCEPT !.ret = RollbackResult(FALSE, "Rollback cancelled",
                                               <<>>, <<>>, <<>>)]
    ELSE
    Bind(IF useGit THEN gitRollback(backed, checkpoint, r)
         ELSE [backed EXCEPT !.ret = [success |-> FALSE, restoredFiles |-> <<>>,
                                      errors |-> <<>>]],
         LAMBDA viaGit :
    IF useGit /\ viaGit.ret.success
    THEN [viaGit EXCEPT !.ret = RollbackResult(TRUE, "Successfully rolled back",
                                               viaGit.ret.restoredFiles, <<>>, <<>>)]
    ELSE
    Bind(IF Len(checkpoint.changedFiles) > 0 /\ Len(viaGit.ret.errors) > 0
         THEN replayFiles(viaGit, checkpoint.changedFiles, checkpoint.gitCommitHash,
                          r, <<>>, <<>>)
         ELSE [viaGit EXCEPT !.ret = [filesRestored |-> <<>>,
                                      filesNotRestored |-> <<>>]],
         LAMBDA replayed :
    LET errors == viaGit.ret.errors
        filesRestored == replayed.ret.filesRestored
        filesNotRestored == replayed.ret.filesNotRestored
        success == Len(filesRestored) > 0 \/ Len(errors) = 0
    IN [replayed EXCEPT
           !.ret = RollbackResult(success,
                                  IF success THEN "Rolled back to checkpoint"
                                  ELSE "Rollback failed",
                                  filesRestored, filesNotRestored, errors)])))

\* -------------------------------------------------- branches and positions
\* the repository's branch; `undefined` as a branch name is the empty string
BranchName == "master"

NoBranch == ""

\* GitManager.getCurrentBranch: git rev-parse --abbrev-ref HEAD
getCurrentBranch(st, isRepo) ==
    IF ~isRepo \/ st.head = NoId THEN NoBranch
    ELSE IF st.attached THEN BranchName
    ELSE "HEAD"

\* the files of the working tree after git has switched it from commit `from`
\* to commit `to`: tracked files follow the commit, the others stay
switchTree(st, from, to) ==
    LET target == treeOf(st.commits, to)
        tracked == treeOf(st.commits, from)
    IN [p \in Paths |->
           IF target[p] # NoContent THEN target[p]
           ELSE IF tracked[p] # NoContent THEN NoContent
           ELSE st.disk[p]]

\* GitManager.checkoutCommit: stash what is modified, then git checkout <hash>
checkoutCommit(st, isRepo, commitHash, gitFails) ==
    IF ~isRepo \/ gitFails \/ ~commitExists(st.commits, commitHash)
    THEN [st EXCEPT !.ret = FALSE]
    ELSE [st EXCEPT !.head = commitHash,
                    !.attached = FALSE,
                    !.disk = switchTree(st, st.head, commitHash),
                    !.ret = TRUE]

\* GitManager.checkoutBranch(name): git checkout <name>
checkoutBranch(st, isRepo, name, gitFails) ==
    IF ~isRepo \/ gitFails THEN [st EXCEPT !.ret = FALSE]
    ELSE IF name = "HEAD" /\ st.head # NoId THEN [st EXCEPT !.ret = TRUE]
    ELSE IF name = BranchName /\ st.tip # NoId
    THEN [st EXCEPT !.head = st.tip,
                    !.attached = TRUE,
                    !.disk = switchTree(st, st.head, st.tip),
                    !.ret = TRUE]
    ELSE [st EXCEPT !.ret = FALSE]

\* StateMonitor.refreshAllEditors: every open document is reverted to the file
refreshAllEditors(st) ==
    [st EXCEPT !.docs = [p \in Paths |->
                            IF st.docs[p] # NoContent /\ st.disk[p] # NoContent
                            THEN st.disk[p] ELSE st.docs[p]]]

\* StateMonitor.returnToLatest
returnToLatest(st, isRepo, gitFails) ==
    LET branch == getCurrentBranch(st, isRepo)
        mainBranch == IF branch # NoBranch THEN branch ELSE "master"
    IN Bind(checkoutBranch(st, isRepo, mainBranch, gitFails), LAMBDA op :
           IF op.ret
           THEN [refreshAllEditors(op) EXCEPT
                    !.ret = [success |-> TRUE, message |-> "Returned to latest state",
                             branch |-> mainBranch]]
           ELSE [op EXCEPT
                    !.ret = [success |-> FALSE,
                             message |-> "Failed to return to main branch",
                             branch |-> mainBranch]])

\* ------------------------------------------------- StateMonitor: auto-save
\* m is the monitor: clock (Date.now(), in seconds), commitTimeout (when the
\* debounce timer is due, NoTimer when none is pending), lastCommitTime,
\* isEnabled, autoCommitEnabled, dirty (git status would report a change),
\* checks (the checkAndCommit calls suspended at an await, each with the `now`
\* it read and the await it is at) and commitsAt (when the last two auto-save
\* commits were created)

\* scheduleCommit: the pending timer is cleared and a new one is set
scheduleCommit(m) ==
    IF ~m.autoCommitEnabled THEN m
    ELSE [m EXCEPT !.commitTimeout = m.clock + commitDebounceMs]

\* the file watcher's onDidChange / onDidCreate / onDidDelete on a tracked file
onDidChange(m) == scheduleCommit([m EXCEPT !.dirty = TRUE])

\* checkAndCommit up to `await this.gitManager.getStatus()`
checkAndCommit(m) ==
    IF ~m.isEnabled \/ ~m.autoCommitEnabled THEN m
    ELSE IF m.clock - m.lastCommitTime < minTimeBetweenCommits THEN m
    ELSE [m EXCEPT !.checks = Append(@, [now |-> m.clock, await |-> "getStatus"])]

\* checkAndCommit from the answer of getStatus to `await createCommit(...)`;
\* hasStatus: getStatus returned a status
afterGetStatus(m, k, hasStatus) ==
    IF ~hasStatus \/ ~m.dirty THEN [m EXCEPT !.checks = RemoveAt(@, k)]
    ELSE [m EXCEPT !.checks[k].await = "createCommit"]

\* checkAndCommit from the answer of createCommit to its end; createCommit
\* makes a commit when git works and something is staged
afterCreateCommit(m, k, gitFails) ==
    IF gitFails \/ ~m.dirty THEN [m EXCEPT !.checks = RemoveAt(@, k)]
    ELSE [m EXCEPT !.lastCommitTime = m.checks[k].now,
                   !.dirty = FALSE,
                   !.commitsAt = IF @ = <<>> THEN <<m.clock>>
                                 ELSE <<@[Len(@)], m.clock>>,
                   !.checks = RemoveAt(@, k)]

\* ------------------------------------------------- AIDetector: batches
\* d is the detector: fileSnapshots (path -> text), pendingChanges (the entries
\* of the map in insertion order: the path, the source and, for the record,
\* the text the document had before the first change of the entry),
\* debounceTimer (a timer is pending) and batches (what the last
\* processPendingChanges fired, each file with that recorded text as `first`)

\* createSnapshot(document) / onDocumentSave(document)
createSnapshot(d, path, text) == [d EXCEPT !.fileSnapshots[path] = text]

\* onDocumentChange(event) for a change of source `source` to the document at
\* path, whose text was textBefore
onDocumentChange(d, path, source, textBefore) ==
    LET existing == FindIndex(d.pendingChanges, LAMBDA e : e.path = path)
        pending ==
            IF existing > 0
            THEN [d.pendingChanges EXCEPT
                     ![existing].source =
                         IF source # "User" /\ @ = "User" THEN source ELSE @]
            ELSE Append(d.pendingChanges,
                        [path |-> path, source |-> source, first |-> textBefore])
    IN [d EXCEPT !.pendingChanges = pending, !.debounceTimer = TRUE]

\* processPendingChanges(): one batch for each source, in the order in which
\* the sources come up in the map; text is what getText() answers
processPendingChanges(d, text) ==
    IF d.pendingChanges = <<>> THEN d
    ELSE
    LET pending == d.pendingChanges
        changedFile(e) ==
            [path |-> e.path, changeType |-> "Modified",
             previousContent |-> d.fileSnapshots[e.path],
             currentContent |-> text[e.path], first |-> e.first]
        batch(source) ==
            LET of == SelectSeq(pending, LAMBDA e : e.source = source)
            IN [source |-> source,
                changedFiles |-> [k \in 1..Len(of) |-> changedFile(of[k])]]
        others == SelectSeq(pending, LAMBDA e : e.source # pending[1].source)
    IN [d EXCEPT
           !.fileSnapshots =
               [p \in DOMAIN @ |->
                   IF \E k \in 1..Len(pending) : pending[k].path = p
                   THEN text[p] ELSE @[p]],
           !.batches = IF others = <<>> THEN <<batch(pending[1].source)>>
                       ELSE <<batch(pending[1].source), batch(others[1].source)>>,
           !.pendingChanges = <<>>]

\* ------------------------------------------------------ rollbackToState
\* the files that git status reports: those that differ from the commit at HEAD
changedInWorkingTree(st) ==
    {p \in Paths : st.disk[p] # treeOf(st.commits, st.head)[p]}

\* GitManager.hasUncommittedChanges
hasUncommittedChanges(st, isRepo) ==
    isRepo /\ changedInWorkingTree(st) # {}

\* StateMonitor.captureState(description): commits everything that changed, on
\* the current position; st.ret tells whether a snapshot was returned
captureState(st, isRepo, description, commitFails) ==
    IF ~isRepo \/ changedInWorkingTree(st) = {} \/ commitFails
    THEN [st EXCEPT !.ret = FALSE]
    ELSE [st EXCEPT
            !.nextHash = st.nextHash + 1,
            !.commits = @ \cup {[hash |-> st.nextHash + 1, date |-> st.now,
                                 words |-> {"pin", description},
                                 tree |-> st.disk, parent |-> st.head]},
            !.head = st.nextHash + 1,
            !.tip = IF st.attached THEN st.nextHash + 1 ELSE @,
            !.ret = TRUE]

\* GitManager.stash: tracked files go back to the commit at HEAD
stash(st) ==
    [st EXCEPT !.disk = [p \in Paths |->
                            IF treeOf(st.commits, st.head)[p] # NoContent
                            THEN treeOf(st.commits, st.head)[p] ELSE st.disk[p]]]

\* StateMonitor.rollbackToState(commitHash); r: how the git calls go
rollbackToState(st, isRepo, commitHash, r) ==
    LET saved == captureState(st, isRepo, "Auto-save before time travel",
                              r.commitFails)
        prepared == IF ~hasUncommittedChanges(st, isRepo) THEN st
                    ELSE IF saved.ret THEN saved
                    ELSE stash(st)
    IN Bind(checkoutCommit(prepared, isRepo, commitHash, r.gitFails), LAMBDA op :
           IF op.ret
           THEN [refreshAllEditors(op) EXCEPT
                    !.ret = [success |-> TRUE,
                             message |-> "Successfully traveled to"]]
           ELSE [op EXCEPT
                    !.ret = [success |-> FALSE, message |-> "Git checkout failed"]])

\* ----------------------------------------------------------- rollbackFile
\* variant: the file is taken from the commit itself, not from its parent
restoreFile_atCommit(st, isRepo, filePath, commitHash, gitFails) ==
    LET content == getFileAtCommit(st, isRepo, filePath, commitHash)
    IN IF ~isRepo \/ gitFails \/ content = NoContent THEN [st EXCEPT !.ret = FALSE]
       ELSE [st EXCEPT !.disk[filePath] = content, !.ret = TRUE]

\* GitManager.restoreFile(filePath, `${commitHash}^`): git checkout <hash>^ -- path;
\* false without a repository and when git fails (no such commit, no parent,
\* no such path in the parent)
restoreFile(st, isRepo, filePath, commitHash, gitFails) ==
    LET content == getFileAtParent(st, isRepo, filePath, commitHash)
    IN IF ~isRepo \/ gitFails \/ content = NoContent THEN [st EXCEPT !.ret = FALSE]
       ELSE [st EXCEPT !.disk[filePath] = content, !.ret = TRUE]

\* RollbackManager.rollbackFile(checkpointId, filePath); r: whether the
\* workspace is a repository, whether git fails, whether writeFileSync throws
rollbackFile(st, checkpointId, filePath, r) ==
    LET ci == getCheckpoint(st, checkpointId)
    IN IF ci = 0 THEN [st EXCEPT !.ret = FALSE]
       ELSE
         LET checkpoint == st.checkpoints[ci]
             fi == FindIndex(checkpoint.changedFiles, LAMBDA f : f.path = filePath)
         IN IF fi = 0 THEN [st EXCEPT !.ret = FALSE]
            ELSE
              LET file == checkpoint.changedFiles[fi]
              IN IF file.previousContent # NoContent
                 THEN IF st.docs[filePath] = NoContent /\ r.writeThrows
                      THEN [st EXCEPT !.ret = FALSE]
                      ELSE [restoreFileContent(st, filePath, file.previousContent)
                               EXCEPT !.ret = TRUE]
                 ELSE IF checkpoint.gitCommitHash # NoId
                 THEN restoreFile(st, r.isRepo, filePath, checkpoint.gitCommitHash,
                                  r.gitFails)
                 ELSE [st EXCEPT !.ret = FALSE]

\* ------------------------------------------------ GitGraphProvider: lanes
\* Array.prototype.indexOf, 0-based; NotFound when x is not an element
indexOf(s, x) ==
    IF \E k \in 1..Len(s) : s[k] = x
    THEN (CHOOSE k \in 1..Len(s) : s[k] = x /\ \A j \in 1..(k - 1) : s[j] # x) - 1
    ELSE NotFound

\* variant: a new slot is added on every call
findFreeLane_alwaysNew(activeLanes) ==
    [activeLanes |-> Append(activeLanes, FreeLane), lane |-> Len(activeLanes)]

\* findFreeLane (lines 141-146): the slots after the call and the index returned
findFreeLane(activeLanes) ==
    LET idx == indexOf(activeLanes, FreeLane)
    IN IF idx >= 0 THEN [activeLanes |-> activeLanes, lane |-> idx]
       ELSE [activeLanes |-> Append(activeLanes, FreeLane), lane |-> Len(activeLanes)]

\* variant: no lane is ever found reserved
findLaneForHash_neverFound(activeLanes, hash) == NotFound

findLaneForHash(activeLanes, hash) == indexOf(activeLanes, hash)

\* variant: a slot is never written
setLane_noWrite(activeLanes, lane, value) == activeLanes

\* activeLanes[lane] = value
setLane(activeLanes, lane, value) == [activeLanes EXCEPT ![lane + 1] = value]

\* one findFreeLane call as the pass made it: the slots it found, the index it
\* returned and what the slot was taken for
LaneCall(found, lane, for) == [found |-> found, lane |-> lane, for |-> for]

\* the loop over the additional parents (lines 181-189), from parents[i]
RECURSIVE reserveMergeParents(_, _, _, _)
reserveMergeParents(activeLanes, calls, parents, i) ==
    IF i > Len(parents) THEN [activeLanes |-> activeLanes, calls |-> calls]
    ELSE IF findLaneForHash(activeLanes, parents[i]) >= 0
    THEN reserveMergeParents(activeLanes, calls, parents, i + 1)
    ELSE LET free == findFreeLane(activeLanes)
         IN reserveMergeParents(setLane(free.activeLanes, free.lane, parents[i]),
                                Append(calls, LaneCall(activeLanes, free.lane, "parent")),
                                parents, i + 1)

\* variant: the lane of a commit is kept for its first parent also when that
\* parent already has a lane
layoutCommit_keepsLane(activeLanes, commit) ==
    LET reserved == findLaneForHash(activeLanes, commit.hash)
        free == findFreeLane(activeLanes)
        lane == IF reserved < 0 THEN free.lane ELSE reserved
        taken == IF reserved < 0 THEN free.activeLanes ELSE activeLanes
        calls == IF reserved < 0 THEN <<LaneCall(activeLanes, free.lane, "commit")>>
                 ELSE <<>>
    IN IF commit.parents = <<>>
       THEN [activeLanes |-> setLane(taken, lane, FreeLane), lane |-> lane,
             calls |-> calls, reserved |-> reserved, firstParentLane |-> NotFound]
       ELSE LET merged == reserveMergeParents(setLane(taken, lane, commit.parents[1]),
                                              calls, commit.parents, 2)
            IN [activeLanes |-> merged.activeLanes, lane |-> lane,
                calls |-> merged.calls, reserved |-> reserved,
                firstParentLane |-> NotFound]

\* the body of the loop over the commits (lines 152-192): the slots after it,
\* the lane given to the commit, the findFreeLane calls made, and what the two
\* lookups found (the lane reserved for the commit, the lane of its first parent)
layoutCommit(activeLanes, commit) ==
    LET reserved == findLaneForHash(activeLanes, commit.hash)
        free == findFreeLane(activeLanes)
        lane == IF reserved < 0 THEN free.lane ELSE reserved
        taken == IF reserved < 0 THEN free.activeLanes ELSE activeLanes
        calls == IF reserved < 0 THEN <<LaneCall(activeLanes, free.lane, "commit")>>
                 ELSE <<>>
    IN IF commit.parents = <<>>
       THEN [activeLanes |-> setLane(taken, lane, FreeLane), lane |-> lane,
             calls |-> calls, reserved |-> reserved, firstParentLane |-> NotFound]
       ELSE LET firstParent == commit.parents[1]
                existingLaneForFirstParent == findLaneForHash(taken, firstParent)
                continued == IF existingLaneForFirstParent >= 0
                             THEN setLane(taken, lane, FreeLane)
                             ELSE setLane(taken, lane, firstParent)
                merged == reserveMergeParents(continued, calls, commit.parents, 2)
            IN [activeLanes |-> merged.activeLanes, lane |-> lane,
                calls |-> merged.calls, reserved |-> reserved,
                firstParentLane |-> existingLaneForFirstParent]

\* computeLaneLayout(commits) at its first line
StartGraph(cs) ==
    [commits |-> cs, pos |-> 0, activeLanes |-> <<>>, lane |-> <<>>,
     calls |-> <<>>, reserved |-> NotFound, firstParentLane |-> NotFound,
     returned |-> FALSE, totalLanes |-> NotFound]

\* Math.max(a, b)
Max(a, b) == IF a >= b THEN a ELSE b

\* ------------------------------------------ GitGraphProvider: getGraphData
\* rawCommits.map(...) (lines 28-41): lane 0 and no children to start with
toGraphCommit(rc) ==
    [hash |-> rc.hash, parents |-> rc.parents, lane |-> 0, children |-> <<>>]

\* variant: an unknown hash is looked up as the first commit of the window
commitMapGet_firstForUnknown(cs, hash) ==
    IF \E k \in 1..Len(cs) : cs[k].hash = hash
    THEN CHOOSE k \in 1..Len(cs) :
             cs[k].hash = hash /\ \A j \in (k + 1)..Len(cs) : cs[j].hash # hash
    ELSE 1

\* commitMap.get(hash) (lines 44-47, 50): the position of the commit the map
\* holds for hash, the last one set, or NotFound
commitMapGet(cs, hash) ==
    IF \E k \in 1..Len(cs) : cs[k].hash = hash
    THEN CHOOSE k \in 1..Len(cs) :
             cs[k].hash = hash /\ \A j \in (k + 1)..Len(cs) : cs[j].hash # hash
    ELSE NotFound

\* the inner loop (lines 49-54): commit k is pushed to the children of each of
\* its parents the map knows, from parents[i]
RECURSIVE linkChildren(_, _, _)
linkChildren(cs, k, i) ==
    IF i > Len(cs[k].parents) THEN cs
    ELSE LET parent == commitMapGet(cs, cs[k].parents[i])
         IN IF parent # NotFound
            THEN linkChildren([cs EXCEPT ![parent].children = Append(@, cs[k].hash)],
                              k, i + 1)
            ELSE linkChildren(cs, k, i + 1)

\* the loop of computeLaneLayout (lines 152-192) from commit k: commit.lane is
\* set on each commit
RECURSIVE layoutFrom(_, _, _)
layoutFrom(cs, activeLanes, k) ==
    IF k > Len(cs) THEN [commits |-> cs, activeLanes |-> activeLanes]
    ELSE LET did == layoutCommit(activeLanes, cs[k])
         IN layoutFrom([cs EXCEPT ![k].lane = did.lane], did.activeLanes, k + 1)

\* computeLaneLayout (lines 129-197): the commits with their lanes, and totalLanes
computeLaneLayout(cs) ==
    IF Len(cs) = 0 THEN [commits |-> cs, totalLanes |-> 0]
    ELSE LET done == layoutFrom(cs, <<>>, 1)
         IN [commits |-> done.commits,
             totalLanes |-> Max(Len(done.activeLanes), 1)]

\* getGraphData once git has answered with rawCommits (line 26)
StartGraphData(rawCommits) ==
    [rawCommits |-> rawCommits, commits |-> <<>>, stage |-> "fetched",
     linked |-> 0, totalLanes |-> NotFound]

\* ================================================================ actions
\* inputs
FileA1 == [path |-> PathWA, changeType |-> "Modified",
           previousContent |-> 1, currentContent |-> 2]
FileB0 == [path |-> PathB, changeType |-> "Modified",
           previousContent |-> NoContent, currentContent |-> 2]
ChangedFileLists == {<<>>, <<FileA1>>, <<FileB0>>, <<FileA1, FileB0>>}

StatusA == <<[path |-> PathA, changeType |-> "modified", staged |-> FALSE]>>

GitOutcome(isRepo, statusThrows, status, commit, committed) ==
    [isRepo |-> isRepo, statusThrows |-> statusThrows, status |-> status,
     commit |-> commit, committed |-> committed]

\* every way the version-control calls of createCheckpoint (lines 171-196) can go
NotARepository == GitOutcome(FALSE, FALSE, <<>>, "fail", <<>>)
StatusThrows == GitOutcome(TRUE, TRUE, <<>>, "fail", <<>>)
CommitThrows == GitOutcome(TRUE, FALSE, StatusA, "throw", <<>>)
CommitFails == GitOutcome(TRUE, FALSE, <<>>, "fail", <<>>)
CommitNoHash == GitOutcome(TRUE, FALSE, StatusA, "nohash", <<>>)
CommitOk == GitOutcome(TRUE, FALSE, StatusA, "ok", <<>>)
CommitOkFiles == GitOutcome(TRUE, FALSE, <<>>, "ok", <<PathA>>)
GitOutcomes == {NotARepository, StatusThrows, CommitThrows, CommitFails,
                CommitNoHash, CommitOk, CommitOkFiles}

Triggers == {<<"Manual", "User">>, <<"AIGenerated", "Copilot">>}

\* P scopes a specification: the inputs its calls draw from and its bounds
\*   [triggers, fileLists, outcomes, ticks, maxId, maxTime, maxHash]
WithinBounds(st, P) ==
    /\ st.nextId <= P.maxId
    /\ st.now <= P.maxTime
    /\ st.nextHash <= P.maxHash

\* what the last call was and what it returned (a returned checkpoint is the
\* stored object, so it shows what deleteCheckpoint did to it since);
\* before: the checkpoints that were stored when createCheckpoint looked for
\* the parent (line 199), or when deleteCheckpoint, rollback or syncWithGit
\* was called;
\* made: the checkpoint as createCheckpoint built it (lines 202-216);
\* log: what a rollback did, in order
Returned(op, arg, st) ==
    [op |-> op, arg |-> arg, ret |-> st.ret,
     before |-> IF op \in {"createCheckpoint", "startSession", "deleteCheckpoint",
                           "rollback", "syncWithGit"}
                THEN st.before ELSE <<>>,
     made |-> IF op \in {"createCheckpoint", "startSession"} THEN st.made ELSE NoId,
     log |-> IF op = "rollback" THEN st.log ELSE <<>>,
     fired |-> IF op \in {"createCheckpoint", "startSession", "endSession",
                          "deleteCheckpoint", "cleanupInvalidCheckpoints"}
               THEN st.fired ELSE <<>>]

\* the store after an operation becomes the next state
Becomes(st, op, arg, P) ==
    \E after \in {st} :
        /\ WithinBounds(after, P)
        /\ checkpoints' = after.checkpoints
        /\ sessions' = after.sessions
        /\ activeSessionId' = after.activeSessionId
        /\ settings' = after.settings
        /\ nextId' = after.nextId
        /\ now' = after.now
        /\ commits' = after.commits
        /\ nextHash' = after.nextHash
        /\ head' = after.head
        /\ tip' = after.tip
        /\ attached' = after.attached
        /\ disk' = after.disk
        /\ docs' = after.docs
        /\ last' = Returned(op, arg, after)
        /\ graph' = graph
        /\ inFlight' = inFlight
        /\ monitor' = monitor
        /\ detector' = detector

\* the state after construction of a fresh workspace (loadStorageData, lines 47-53)
InitWith(maxCheckpoints) ==
    /\ checkpoints = <<>>
    /\ sessions = <<>>
    /\ activeSessionId = NoId
    /\ settings = [DEFAULT_SETTINGS EXCEPT !.maxCheckpoints = maxCheckpoints]
    /\ nextId = 0
    /\ now = 1
    /\ commits = {}
    /\ nextHash = 0
    /\ head = NoId
    /\ tip = NoId
    /\ attached = TRUE
    /\ disk = [p \in Paths |-> IF p = PathB THEN NoContent ELSE 2]
    /\ docs = [p \in Paths |-> NoContent]
    /\ last = [op |-> "init", arg |-> NoId, ret |-> NoId, before |-> <<>>,
               made |-> NoId, log |-> <<>>, fired |-> <<>>]
    /\ graph = <<>>
    /\ inFlight = <<>>
    /\ monitor = <<>>
    /\ detector = <<>>

StartSession(P) ==
    \E g \in P.outcomes, d \in P.ticks :
        Becomes(startSession(Store, g, d), "startSession", activeSessionId, P)

EndSession(P) ==
    /\ getActiveSessionIndex(Store) # 0
    /\ Becomes(endSession(Store), "endSession", activeSessionId, P)

CreateCheckpoint(P) ==
    \E t \in P.triggers, files \in P.fileLists, g \in P.outcomes, d \in P.ticks :
        \E g0 \in IF activeSessionId = NoId THEN P.outcomes ELSE {g} :
            \E d0 \in IF activeSessionId = NoId THEN P.ticks ELSE {0} :
                Becomes(createCheckpoint(Store, t[1], t[2], files,
                                         generateCheckpointName(t[1], t[2]),
                                         g0, d0, g, d),
                        "createCheckpoint", g, P)

DeleteCheckpoint(P) ==
    \E id \in {cp.id : cp \in Range(checkpoints)} :
        Becomes(deleteCheckpoint(Store, id), "deleteCheckpoint", id, P)

ToggleStarred(P) ==
    \E id \in {cp.id : cp \in Range(checkpoints)} :
        Becomes(toggleStarred(Store, id), "toggleStarred", id, P)

SyncWithGit(P) ==
    Becomes(syncWithGit(Store), "syncWithGit", activeSessionId, P)

\* syncWithGit(); the call record keeps the call made just before it, what a
\* syncWithGit made just before it returned, and the sessions it found
SyncWithGitAfter(P) ==
    \E after \in {syncWithGit(Store)} :
        Becomes(after, "syncWithGit",
                [after |-> last.op,
                 first |-> IF last.op = "syncWithGit"
                           THEN [added |-> last.ret.added, removed |-> last.ret.removed]
                           ELSE [added |-> 0, removed |-> 0],
                 was |-> [sessions |-> sessions]], P)

\* the repository changes behind the store's back: a checkpoint-tagged commit
\* arrives (pull, another window), or one leaves the log (reset, rebase)
GitCommitArrives(P) ==
    /\ nextHash < P.maxHash
    /\ commits' = commits \cup
            {[hash |-> nextHash + 1, date |-> now, words |-> {"floppy", "Manual"},
              tree |-> disk, parent |-> head]}
    /\ nextHash' = nextHash + 1
    /\ head' = nextHash + 1
    /\ tip' = IF attached THEN nextHash + 1 ELSE tip
    /\ last' = [op |-> "gitCommitArrives", arg |-> nextHash + 1, ret |-> NoId,
                before |-> <<>>, made |-> NoId, log |-> <<>>, fired |-> <<>>]
    /\ UNCHANGED <<checkpoints, sessions, activeSessionId, settings, nextId,
                   now, attached, disk, docs, graph, inFlight, monitor, detector>>

GitCommitLeaves ==
    \E c \in commits :
        /\ commits' = commits \ {c}
        /\ head' = IF head = c.hash THEN c.parent ELSE head
        /\ tip' = IF tip = c.hash THEN c.parent ELSE tip
        /\ last' = [op |-> "gitCommitLeaves", arg |-> c.hash, ret |-> NoId,
                    before |-> <<>>, made |-> NoId, log |-> <<>>, fired |-> <<>>]
        /\ UNCHANGED <<checkpoints, sessions, activeSessionId, settings, nextId,
                       now, nextHash, attached, disk, docs, graph, inFlight, monitor, detector>>

\* validateCheckpoint(checkpoint) on a stored checkpoint; it changes nothing
ValidateCheckpoint ==
    \E cp \in Range(checkpoints), isRepo \in BOOLEAN :
        /\ last' = [op |-> "validateCheckpoint",
                    arg |-> [checkpoint |-> cp, isRepo |-> isRepo],
                    ret |-> validateCheckpoint(Store, isRepo, cp),
                    before |-> <<>>, made |-> NoId, log |-> <<>>, fired |-> <<>>]
        /\ UNCHANGED <<checkpoints, sessions, activeSessionId, settings, nextId,
                       now, commits, nextHash, head, tip, attached, disk, docs,
                       graph, inFlight, monitor, detector>>

\* cleanupInvalidCheckpoints(); the call record keeps what the store and the
\* repository were when it was called
CleanupInvalidCheckpoints(P) ==
    \E isRepo \in BOOLEAN :
        Becomes(cleanupInvalidCheckpoints(Store, isRepo, checkpoints, <<>>, <<>>),
                "cleanupInvalidCheckpoints",
                [isRepo |-> isRepo,
                 was |-> [checkpoints |-> checkpoints, sessions |-> sessions,
                          commits |-> commits, disk |-> disk]], P)

\* the user opens a file in the editor or types into it
EditDocument ==
    \E p \in {PathWA}, c \in Contents :
        /\ docs[p] # c
        /\ docs' = [docs EXCEPT ![p] = c]
        /\ last' = [op |-> "editDocument", arg |-> p, ret |-> NoId, before |-> <<>>, made |-> NoId, log |-> <<>>, fired |-> <<>>]
        /\ UNCHANGED <<checkpoints, sessions, activeSessionId, settings, nextId,
                       now, commits, nextHash, head, tip, attached, disk, graph, inFlight, monitor, detector>>

\* the options of a rollback call, the answers given to its dialogs and the
\* outcomes of the calls it makes
RollbackInputs ==
    [skipConfirmation : BOOLEAN, confirm : {"Cancel", "Rollback"},
     confirmAgain : {"Yes, Rollback"}, createBackup : BOOLEAN,
     g0 : {NotARepository}, d0 : {0}, g : {NotARepository, CommitOk, CommitFails},
     d : {0},
     method : {"dismissed", "hard", "checkout"}, gitFails : BOOLEAN,
     refreshThrows : {FALSE}, writeThrows : {{}, {PathWA}}]

\* inputs that differ only in an answer or outcome the call never asks for
\* are the same call
Asked(r, hasHash) ==
    /\ r.skipConfirmation => r.confirm = "Rollback"
    /\ r.confirm = "Cancel" =>
           /\ r.createBackup /\ r.g = NotARepository /\ r.writeThrows = {}
           /\ r.method = "hard" /\ ~r.gitFails
    /\ (~r.g.isRepo \/ ~hasHash) => (r.method = "hard" /\ ~r.gitFails)
    /\ r.method = "dismissed" => ~r.gitFails
    /\ r.writeThrows # {} => r.gitFails

InputsWithHash == {r \in RollbackInputs : Asked(r, TRUE)}

InputsWithoutHash == {r \in RollbackInputs : Asked(r, FALSE)}

\* what an editor or a reader of the files sees: the document when the file is
\* open, else the file
WorkingContent == [p \in Paths |-> IF docs[p] # NoContent THEN docs[p] ELSE disk[p]]

\* the checkpoints a call created, in order
CreatedIn(log) ==
    SelectSeq(log, LAMBDA e : e.kind \in {"saved", "evicted"})

\* a rollback that made a backup and then did not restore through git
ReplayedWithBackup(st) ==
    /\ CreatedIn(st.log) # <<>>
    /\ st.ret.message \in {"Rolled back to checkpoint", "Rollback failed"}

\* what a scope with history remembers of a rollback call (st: the store after
\* it): the content it found, when it made a backup and did not restore through
\* git, the same of the rollback before it together with that backup, and the
\* commit the branch pointed at when it was called
History(P, st) ==
    IF ~P.history THEN <<>>
    ELSE <<[w |-> IF ReplayedWithBackup(st) THEN <<WorkingContent>> ELSE <<>>,
            prev |-> IF last.op = "rollback" /\ last.arg.history[1].w # <<>>
                     THEN <<[w |-> last.arg.history[1].w[1],
                             backups |-> CreatedIn(last.log)]>>
                     ELSE <<>>,
            tip |-> tip]>>

\* rollback(checkpointId, options); NoId names no checkpoint
Rollback(P) ==
    \E id \in {cp.id : cp \in Range(checkpoints)} \cup {NoId} :
        \E r \in (IF \E cp \in Range(checkpoints) :
                       cp.id = id /\ cp.gitCommitHash # NoId
                   THEN InputsWithHash ELSE InputsWithoutHash) \cap P.rollbacks :
            \E after \in {rollback(Store, id, r)} :
                Becomes([after EXCEPT !.before = checkpoints], "rollback",
                        [id |-> id, r |-> r, history |-> History(P, after)], P)

\* what can happen to the calls rollbackFile makes: nothing, the workspace is
\* not a repository, git fails, writeFileSync throws
RollbackFileInputs ==
    {[isRepo |-> TRUE, gitFails |-> FALSE, writeThrows |-> FALSE],
     [isRepo |-> FALSE, gitFails |-> FALSE, writeThrows |-> FALSE],
     [isRepo |-> TRUE, gitFails |-> TRUE, writeThrows |-> FALSE],
     [isRepo |-> TRUE, gitFails |-> FALSE, writeThrows |-> TRUE]}

\* rollbackFile(checkpointId, filePath) on a stored id or one that is not
\* stored, and any path; was: what the call found
RollbackFile(P) ==
    \E id \in {cp.id : cp \in Range(checkpoints)} \cup {NoId}, filePath \in Paths :
        \E r \in RollbackFileInputs :
            \E after \in {rollbackFile(Store, id, filePath, r)} :
                Becomes(after, "rollbackFile",
                        [id |-> id, path |-> filePath, r |-> r,
                         was |-> [checkpoints |-> checkpoints, disk |-> disk,
                                  docs |-> docs]], P)

\* a file of the working tree is written by an editor, a tool or an AI agent
WriteFile ==
    \E p \in {PathA}, c \in Contents :
        /\ disk[p] # c
        /\ disk' = [disk EXCEPT ![p] = c]
        /\ last' = [op |-> "writeFile", arg |-> p, ret |-> NoId, before |-> <<>>,
                    made |-> NoId, log |-> <<>>, fired |-> <<>>]
        /\ UNCHANGED <<checkpoints, sessions, activeSessionId, settings, nextId,
                       now, commits, nextHash, head, tip, attached, docs, graph,
                       inFlight, monitor, detector>>

\* the user saves an open document
SaveDocument ==
    \E p \in {PathWA} :
        /\ docs[p] # NoContent
        /\ docs[p] # disk[p]
        /\ disk' = [disk EXCEPT ![p] = docs[p]]
        /\ last' = [op |-> "saveDocument", arg |-> p, ret |-> NoId, before |-> <<>>,
                    made |-> NoId, log |-> <<>>, fired |-> <<>>]
        /\ UNCHANGED <<checkpoints, sessions, activeSessionId, settings, nextId,
                       now, commits, nextHash, head, tip, attached, docs, graph, inFlight, monitor, detector>>

\* a commit is checked out from the graph view (detached HEAD)
CheckoutCommit(P) ==
    \E c \in commits :
        Becomes(checkoutCommit(Store, TRUE, c.hash, FALSE), "checkoutCommit", c.hash, P)

\* the reset of the last call, when that was a rollback that reset the
\* repository: the commit it reset to and the commit the branch pointed at
LastReset ==
    IF /\ last.op = "rollback"
       /\ last.arg.history # <<>>
       /\ \E k \in 1..Len(last.log) : last.log[k].kind = "reset"
    THEN <<[to |-> head, from |-> last.arg.history[1].tip,
            hard |-> last.arg.r.method = "hard"]>>
    ELSE <<>>

ReturnToLatest(P) ==
    \E gitFails \in BOOLEAN :
        \E after \in {returnToLatest(Store, TRUE, gitFails)} :
            Becomes(after, "returnToLatest",
                    [gitFails |-> gitFails, reset |-> LastReset], P)

\* how the git calls of rollbackToState go
TravelInputs == [commitFails : BOOLEAN, gitFails : BOOLEAN]

\* rollbackToState(commitHash) on a commit of the repository
RollbackToState(P) ==
    \E c \in commits, r \in TravelInputs :
        Becomes(rollbackToState(Store, TRUE, c.hash, r), "rollbackToState",
                [commitHash |-> c.hash, r |-> r, tip |-> tip], P)

\* ------------------------------------------------ StateMonitor's callbacks
\* the clock moves on by a second
Tick ==
    /\ monitor.clock < MaxClock
    /\ monitor' = [monitor EXCEPT !.clock = @ + 1]
    /\ UNCHANGED <<checkpoints, sessions, activeSessionId, settings, nextId, now,
                   commits, nextHash, head, tip, attached, disk, docs, last, graph,
                   inFlight, detector>>

\* a tracked file changes: the file watcher calls scheduleCommit
FileChanges ==
    /\ monitor' = onDidChange(monitor)
    /\ monitor' # monitor
    /\ UNCHANGED <<checkpoints, sessions, activeSessionId, settings, nextId, now,
                   commits, nextHash, head, tip, attached, disk, docs, last, graph,
                   inFlight, detector>>

\* the debounce timer fires, at its due time or later, and runs checkAndCommit
\* to its first await
TimerFires ==
    /\ monitor.commitTimeout # NoTimer
    /\ monitor.clock >= monitor.commitTimeout
    /\ Len(monitor.checks) < MaxChecks
    /\ monitor' = checkAndCommit([monitor EXCEPT !.commitTimeout = NoTimer])
    /\ UNCHANGED <<checkpoints, sessions, activeSessionId, settings, nextId, now,
                   commits, nextHash, head, tip, attached, disk, docs, last, graph,
                   inFlight, detector>>

\* getStatus answers a suspended checkAndCommit
StatusReturns ==
    \E k \in 1..Len(monitor.checks), hasStatus \in BOOLEAN :
        /\ monitor.checks[k].await = "getStatus"
        /\ monitor' = afterGetStatus(monitor, k, hasStatus)
        /\ UNCHANGED <<checkpoints, sessions, activeSessionId, settings, nextId, now,
                       commits, nextHash, head, tip, attached, disk, docs, last,
                       graph, inFlight, detector>>

\* createCommit answers a suspended checkAndCommit
CommitReturns ==
    \E k \in 1..Len(monitor.checks), gitFails \in BOOLEAN :
        /\ monitor.checks[k].await = "createCommit"
        /\ monitor' = afterCreateCommit(monitor, k, gitFails)
        /\ UNCHANGED <<checkpoints, sessions, activeSessionId, settings, nextId, now,
                       commits, nextHash, head, tip, attached, disk, docs, last,
                       graph, inFlight, detector>>

\* a tracked file changes while the debounce delay still fits into the time
\* the clock covers
FileChangesInTime ==
    /\ monitor.clock + commitDebounceMs <= MaxClock
    /\ FileChanges

\* getStatus answers a suspended checkAndCommit with a status
StatusAnswers ==
    \E k \in 1..Len(monitor.checks) :
        /\ monitor.checks[k].await = "getStatus"
        /\ monitor' = afterGetStatus(monitor, k, TRUE)
        /\ UNCHANGED <<checkpoints, sessions, activeSessionId, settings, nextId, now,
                       commits, nextHash, head, tip, attached, disk, docs, last,
                       graph, inFlight, detector>>

\* createCommit answers a suspended checkAndCommit in a repository that
\* accepts the commit
CommitAccepted ==
    \E k \in 1..Len(monitor.checks) :
        /\ monitor.checks[k].await = "createCommit"
        /\ monitor' = afterCreateCommit(monitor, k, FALSE)
        /\ UNCHANGED <<checkpoints, sessions, activeSessionId, settings, nextId, now,
                       commits, nextHash, head, tip, attached, disk, docs, last,
                       graph, inFlight, detector>>

\* ---------------------------------------------- AIDetector's callbacks
\* the documents the detector follows and who changes them
DetectorPaths == {PathA, PathB}

ChangeSources == {"User", "Copilot"}

\* the text of an open document changes: onDidChangeTextDocument
DocumentChanges ==
    \E p \in DetectorPaths, source \in ChangeSources :
        \E c \in Contents \ {docs[p]} :
            /\ docs' = [docs EXCEPT ![p] = c]
            /\ detector' = onDocumentChange(detector, p, source, docs[p])
            /\ UNCHANGED <<checkpoints, sessions, activeSessionId, settings, nextId,
                           now, commits, nextHash, head, tip, attached, disk, last,
                           graph, inFlight, monitor>>

\* an open document is saved: onDidSaveTextDocument
DocumentSaved ==
    \E p \in DetectorPaths :
        /\ disk' = [disk EXCEPT ![p] = docs[p]]
        /\ detector' = createSnapshot(detector, p, docs[p])
        /\ UNCHANGED <<checkpoints, sessions, activeSessionId, settings, nextId,
                       now, commits, nextHash, head, tip, attached, docs, last,
                       graph, inFlight, monitor>>

\* the debounce timer fires and runs processPendingChanges
DebounceTimerFires ==
    /\ detector.debounceTimer
    /\ detector' = processPendingChanges([detector EXCEPT !.debounceTimer = FALSE],
                                         docs)
    /\ UNCHANGED <<checkpoints, sessions, activeSessionId, settings, nextId, now,
                   commits, nextHash, head, tip, attached, disk, docs, last, graph,
                   inFlight, monitor>>

\* ------------------------------------- createCheckpoint calls in flight
\* a change event reaches its listener (a user-edit batch or an AI-edit batch
\* from processPendingChanges, an auto-save tick, a manual save) while a
\* session is active: the listener calls createCheckpoint, which runs to its
\* first await; nothing in the listeners or in createCheckpoint looks at the
\* calls already in flight
ChangeEvent(P) ==
    /\ activeSessionId # NoId
    /\ Len(inFlight) < MaxInFlight
    /\ \E t \in P.triggers, files \in P.fileLists :
           \E begun \in {beginCreateCheckpoint(Store, t[1], t[2], files,
                                               generateCheckpointName(t[1], t[2]))} :
               /\ WithinBounds(begun, P)
               /\ nextId' = begun.nextId
               /\ inFlight' = Append(inFlight, begun.ret)
               /\ last' = [op |-> "changeEvent", arg |-> begun.ret.id, ret |-> NoId,
                           before |-> <<>>, made |-> NoId, log |-> <<>>,
                           fired |-> <<>>]
               /\ UNCHANGED <<checkpoints, sessions, activeSessionId, settings, now,
                              commits, nextHash, head, tip, attached, disk, docs,
                              graph, monitor, detector>>

\* git answers one of the suspended calls, in any order: the call commits,
\* stores its checkpoint, evicts, and suspends at saveStorageData
GitAnswers(P) ==
    \E k \in 1..Len(inFlight), g \in P.outcomes, d \in P.ticks :
        /\ inFlight[k].await = "git"
        /\ \E stored \in {resumeCreateCheckpoint(Store, inFlight[k], g, d)} :
               /\ WithinBounds(stored, P)
               /\ checkpoints' = stored.checkpoints
               /\ sessions' = stored.sessions
               /\ now' = stored.now
               /\ commits' = stored.commits
               /\ nextHash' = stored.nextHash
               /\ head' = stored.head
               /\ tip' = stored.tip
               /\ inFlight' = [inFlight EXCEPT ![k].await = "saveStorageData"]
               /\ last' = Returned("createCheckpoint", g, stored)
               /\ UNCHANGED <<activeSessionId, settings, nextId, attached, disk, docs,
                              graph, monitor, detector>>

\* workspaceState.update resolves for one of the calls (line 235): its
\* persistence is complete and the call returns
StorageSaved ==
    \E k \in 1..Len(inFlight) :
        /\ inFlight[k].await = "saveStorageData"
        /\ inFlight' = RemoveAt(inFlight, k)
        /\ last' = [op |-> "saved", arg |-> inFlight[k].id, ret |-> NoId,
                    before |-> <<>>, made |-> NoId, log |-> <<>>, fired |-> <<>>]
        /\ UNCHANGED <<checkpoints, sessions, activeSessionId, settings, nextId, now,
                       commits, nextHash, head, tip, attached, disk, docs, graph,
                       monitor, detector>>

\* the startSession command: the call runs to its first await
StartSessionCalled(P) ==
    /\ Len(inFlight) < MaxInFlight
    /\ \E begun \in {beginStartSession(Store)} :
           /\ WithinBounds(begun, P)
           /\ sessions' = begun.sessions
           /\ activeSessionId' = begun.activeSessionId
           /\ nextId' = begun.nextId
           /\ inFlight' = Append(inFlight, begun.ret)
           /\ last' = [op |-> "startSessionCalled", arg |-> activeSessionId,
                       ret |-> NoId, before |-> <<>>, made |-> NoId, log |-> <<>>,
                       fired |-> <<>>]
           /\ UNCHANGED <<checkpoints, settings, now, commits, nextHash, head, tip,
                          attached, disk, docs, graph, monitor, detector>>

\* the await a suspended startSession is at resolves, in any order: the call
\* runs to its next await or returns
StartSessionResumes(P) ==
    \E k \in 1..Len(inFlight), g \in P.outcomes :
        /\ inFlight[k].await \in {"endSession", "isGitRepository", "createBranch",
                                  "saveSession"}
        /\ \E resumed \in {resumeStartSession(Store, inFlight[k], g, 0, g, 0)} :
               /\ WithinBounds(resumed, P)
               /\ checkpoints' = resumed.checkpoints
               /\ sessions' = resumed.sessions
               /\ activeSessionId' = resumed.activeSessionId
               /\ nextId' = resumed.nextId
               /\ now' = resumed.now
               /\ commits' = resumed.commits
               /\ nextHash' = resumed.nextHash
               /\ head' = resumed.head
               /\ tip' = resumed.tip
               /\ inFlight' = IF resumed.ret.await = "returned"
                              THEN RemoveAt(inFlight, k)
                              ELSE [inFlight EXCEPT ![k] = resumed.ret]
               /\ last' = [op |-> "startSessionResumes",
                           arg |-> [call |-> inFlight[k], then |-> resumed.ret.await],
                           ret |-> NoId, before |-> <<>>, made |-> NoId,
                           log |-> <<>>, fired |-> resumed.fired]
               /\ UNCHANGED <<settings, attached, disk, docs, graph, monitor, detector>>

\* the startSession command, issued while no call is in flight
StartSessionIdle(P) ==
    /\ inFlight = <<>>
    /\ StartSession(P)

\* ------------------------------------------- inputs of computeLaneLayout
\* a hash that is not in the list (a parent outside the fetched window)
OutsideHash == MaxCommits + 1

\* the parents commit k of n can have in log order: at most two, each a later
\* commit of the list or a commit outside it
ParentLists(k, n) ==
    LET later == ((k + 1)..n) \cup {OutsideHash}
    IN {<<>>} \cup {<<a>> : a \in later}
              \cup {pair \in later \X later : pair[1] # pair[2]}

\* computeLaneLayout is called with a list of n commits, of which cs are drawn
\* and commit k is the next; commit k has hash k
RECURSIVE CalledWith(_, _, _)
CalledWith(cs, k, n) ==
    IF k > n THEN graph = StartGraph(cs)
    ELSE \E p \in ParentLists(k, n) :
             CalledWith(Append(cs, [hash |-> k, parents |-> p]), k + 1, n)

\* the early return for an empty list (lines 133-135)
ReturnEmpty ==
    /\ ~graph.returned
    /\ Len(graph.commits) = 0
    /\ graph' = [graph EXCEPT !.returned = TRUE, !.totalLanes = 0]
    /\ UNCHANGED storeVars

\* one turn of the loop over the commits
LayoutCommit ==
    /\ ~graph.returned
    /\ graph.pos < Len(graph.commits)
    /\ \E did \in {layoutCommit(graph.activeLanes, graph.commits[graph.pos + 1])} :
           graph' = [graph EXCEPT !.pos = @ + 1,
                                  !.activeLanes = did.activeLanes,
                                  !.lane = Append(@, did.lane),
                                  !.calls = did.calls,
                                  !.reserved = did.reserved,
                                  !.firstParentLane = did.firstParentLane]
    /\ UNCHANGED storeVars

\* the return after the loop (lines 195-196)
ReturnTotal ==
    /\ ~graph.returned
    /\ Len(graph.commits) > 0
    /\ graph.pos = Len(graph.commits)
    /\ graph' = [graph EXCEPT !.returned = TRUE,
                              !.totalLanes = Max(Len(graph.activeLanes), 1)]
    /\ UNCHANGED storeVars

\* ------------------------------------------------ inputs of getGraphData
\* the parents commit k of a window of n can have: at most two, each another
\* commit of the window (git log lists by date, so on either side of k) or a
\* commit outside the window
WindowParents(k, n) ==
    LET others == ((1..n) \ {k}) \cup {OutsideHash}
    IN {<<>>} \cup {<<a>> : a \in others}
              \cup {pair \in others \X others : pair[1] # pair[2]}

\* getGraphCommits has answered with a window of n commits, of which rcs are
\* drawn and commit k is the next; commit k has hash k
RECURSIVE Fetched(_, _, _)
Fetched(rcs, k, n) ==
    IF k > n THEN graph = StartGraphData(rcs)
    ELSE \E p \in WindowParents(k, n) :
             Fetched(Append(rcs, [hash |-> k, parents |-> p]), k + 1, n)

\* lines 28-41
BuildCommits ==
    /\ graph.stage = "fetched"
    /\ graph' = [graph EXCEPT
           !.commits = [k \in 1..Len(graph.rawCommits) |->
                            toGraphCommit(graph.rawCommits[k])],
           !.stage = "linking"]
    /\ UNCHANGED storeVars

\* one turn of the outer loop of lines 48-55
LinkChildren ==
    /\ graph.stage = "linking"
    /\ graph.linked < Len(graph.commits)
    /\ graph' = [graph EXCEPT
           !.commits = linkChildren(graph.commits, graph.linked + 1, 1),
           !.linked = @ + 1]
    /\ UNCHANGED storeVars

\* line 58
ComputeLaneLayout ==
    /\ graph.stage = "linking"
    /\ graph.linked = Len(graph.commits)
    /\ \E laid \in {computeLaneLayout(graph.commits)} :
           graph' = [graph EXCEPT !.commits = laid.commits,
                                  !.totalLanes = laid.totalLanes,
                                  !.stage = "laid"]
    /\ UNCHANGED storeVars

\* lines 76-85: the snapshot is returned
ReturnGraphData ==
    /\ graph.stage = "laid"
    /\ graph' = [graph EXCEPT !.stage = "returned"]
    /\ UNCHANGED storeVars

\* ------------------------------------- Spec: sessions and the store, no clock
StoreScope ==
    [triggers |-> {<<"Manual", "User">>}, fileLists |-> {<<>>},
     outcomes |-> {NotARepository, CommitOk}, ticks |-> {0},
     maxId |-> MaxId, maxTime |-> 1, maxHash |-> MaxHash]

Init == InitWith(MaxCheckpointsLimit)

Next ==
    \/ StartSession(StoreScope)
    \/ EndSession(StoreScope)
    \/ CreateCheckpoint(StoreScope)
    \/ DeleteCheckpoint(StoreScope)
    \/ SyncWithGit(StoreScope)
    \/ GitCommitArrives(StoreScope)
    \/ GitCommitLeaves

Spec == Init /\ [][Next]_vars

\* --------------------------- SpecChain: the parentId chain, create and delete
ChainScope ==
    [triggers |-> {<<"Manual", "User">>}, fileLists |-> {<<>>},
     outcomes |-> {NotARepository}, ticks |-> 0..1,
     maxId |-> ChainMaxId, maxTime |-> ChainMaxTime, maxHash |-> 0]

InitChain == InitWith(ChainLimit)

NextChain ==
    \/ StartSession(ChainScope)
    \/ CreateCheckpoint(ChainScope)
    \/ DeleteCheckpoint(ChainScope)

SpecChain == InitChain /\ [][NextChain]_vars

\* ------------------- SpecRetention: enforceCheckpointLimit and starred flags
RetentionScope ==
    [triggers |-> {<<"Manual", "User">>}, fileLists |-> {<<>>},
     outcomes |-> {NotARepository}, ticks |-> 0..1,
     maxId |-> RetentionMaxId, maxTime |-> RetentionMaxTime,
     maxHash |-> RetentionMaxHash]

InitRetention == InitWith(MaxCheckpointsLimit)

NextRetention ==
    \/ CreateCheckpoint(RetentionScope)
    \/ ToggleStarred(RetentionScope)
    \/ GitCommitArrives(RetentionScope)
    \/ SyncWithGit(RetentionScope)

SpecRetention == InitRetention /\ [][NextRetention]_vars

\* ------------- SpecCreate: createCheckpoint under every version-control outcome
CreateScope ==
    [triggers |-> {<<"Manual", "User">>}, fileLists |-> {<<>>, <<FileA1>>},
     outcomes |-> GitOutcomes, ticks |-> {0},
     maxId |-> CreateMaxId, maxTime |-> 1, maxHash |-> CreateMaxHash]

InitCreate == InitWith(MaxCheckpointsLimit)

NextCreate ==
    \/ CreateCheckpoint(CreateScope)
    \/ ToggleStarred(CreateScope)
    \/ GitCommitLeaves
    \/ ValidateCheckpoint

SpecCreate == InitCreate /\ [][NextCreate]_vars

\* ----------------------------------- SpecRollback: rollback to a checkpoint
RollbackScope ==
    [triggers |-> {<<"Manual", "User">>}, fileLists |-> ChangedFileLists,
     outcomes |-> {NotARepository, CommitOk}, ticks |-> {0},
     maxId |-> RollbackMaxId, maxTime |-> 1, maxHash |-> RollbackMaxHash,
     rollbacks |-> {r \in RollbackInputs : r.g # CommitFails}, history |-> FALSE]

InitRollback == InitWith(MaxCheckpointsLimit)

NextRollback ==
    \/ CreateCheckpoint(RollbackScope)
    \/ EditDocument
    \/ Rollback(RollbackScope)

SpecRollback == InitRollback /\ [][NextRollback]_vars

\* ------------- SpecRoundTrip: a rollback and the rollback to the backup it made
RoundTripScope ==
    [triggers |-> {<<"Manual", "User">>}, fileLists |-> {<<FileA1>>},
     outcomes |-> {NotARepository, CommitOk}, ticks |-> {0},
     maxId |-> RoundTripMaxId, maxTime |-> 1, maxHash |-> RoundTripMaxHash,
     rollbacks |-> {r \in RollbackInputs :
                       /\ r.skipConfirmation /\ r.method = "hard" /\ r.writeThrows = {}
                       /\ r.g \in {CommitOk, CommitFails}},
     history |-> TRUE]

InitRoundTrip == InitWith(RoundTripLimit)

NextRoundTrip ==
    \/ CreateCheckpoint(RoundTripScope)
    \/ EditDocument
    \/ Rollback(RoundTripScope)

SpecRoundTrip == InitRoundTrip /\ [][NextRoundTrip]_vars

\* ------------- SpecBackup: the backup of a rollback in a store with starred flags
BackupScope ==
    [triggers |-> {<<"AIGenerated", "Copilot">>}, fileLists |-> {<<FileA1>>},
     outcomes |-> {NotARepository, CommitOk}, ticks |-> {0},
     maxId |-> BackupMaxId, maxTime |-> 1, maxHash |-> BackupMaxHash,
     rollbacks |-> {r \in RollbackInputs : r.g # CommitOk /\ r.writeThrows = {}},
     history |-> FALSE]

InitBackup == InitWith(MaxCheckpointsLimit)

NextBackup ==
    \/ CreateCheckpoint(BackupScope)
    \/ ToggleStarred(BackupScope)
    \/ EditDocument
    \/ Rollback(BackupScope)

SpecBackup == InitBackup /\ [][NextBackup]_vars

\* ------------- SpecLookup: rollback with ids that are stored and ids that are not
LookupScope ==
    [triggers |-> {<<"Manual", "User">>}, fileLists |-> {<<FileA1>>},
     outcomes |-> {NotARepository, CommitOk}, ticks |-> {0},
     maxId |-> LookupMaxId, maxTime |-> 1, maxHash |-> LookupMaxHash,
     rollbacks |-> {r \in RollbackInputs :
                       r.method = "hard" /\ ~r.gitFails /\ r.g # CommitFails},
     history |-> FALSE]

InitLookup == InitWith(MaxCheckpointsLimit)

NextLookup ==
    \/ CreateCheckpoint(LookupScope)
    \/ EditDocument
    \/ Rollback(LookupScope)

SpecLookup == InitLookup /\ [][NextLookup]_vars

\* ------- SpecReturn: commits, resets, detached positions and returnToLatest
ReturnScope ==
    [triggers |-> {<<"Manual", "User">>}, fileLists |-> {<<>>},
     outcomes |-> {CommitOk}, ticks |-> {0},
     maxId |-> ReturnMaxId, maxTime |-> 1, maxHash |-> ReturnMaxHash,
     rollbacks |-> {r \in RollbackInputs :
                       /\ r.skipConfirmation /\ ~r.createBackup /\ r.g = CommitOk
                       /\ r.method \in {"hard", "checkout"} /\ r.writeThrows = {}},
     history |-> TRUE]

InitReturn == InitWith(ReturnLimit)

NextReturn ==
    \/ CreateCheckpoint(ReturnScope)
    \/ EditDocument
    \/ SaveDocument
    \/ CheckoutCommit(ReturnScope)
    \/ Rollback(ReturnScope)
    \/ ReturnToLatest(ReturnScope)

SpecReturn == InitReturn /\ [][NextReturn]_vars

\* ------- SpecScenarioA: startSession, then createCheckpoint with one file
ScenarioScope ==
    [triggers |-> {<<"Manual", "User">>}, fileLists |-> {<<FileA1>>},
     outcomes |-> {NotARepository, CommitOk, CommitOkFiles}, ticks |-> {0},
     maxId |-> ScenarioMaxId, maxTime |-> 1, maxHash |-> ScenarioMaxHash]

InitScenarioA == InitWith(MaxCheckpointsLimit)

NextScenarioA ==
    \/ StartSession(ScenarioScope)
    \/ EndSession(ScenarioScope)
    \/ CreateCheckpoint(ScenarioScope)

SpecScenarioA == InitScenarioA /\ [][NextScenarioA]_vars

\* ---------------- SpecLanes: computeLaneLayout on every list of MaxCommits commits
InitLanes ==
    /\ checkpoints = <<>>
    /\ sessions = <<>>
    /\ activeSessionId = NoId
    /\ settings = DEFAULT_SETTINGS
    /\ nextId = 0
    /\ now = 1
    /\ commits = {}
    /\ nextHash = 0
    /\ head = NoId
    /\ tip = NoId
    /\ attached = TRUE
    /\ disk = [p \in Paths |-> NoContent]
    /\ docs = [p \in Paths |-> NoContent]
    /\ last = [op |-> "init", arg |-> NoId, ret |-> NoId, before |-> <<>>,
               made |-> NoId, log |-> <<>>, fired |-> <<>>]
    /\ inFlight = <<>>
    /\ monitor = <<>>
    /\ detector = <<>>
    /\ \E n \in 0..MaxCommits : CalledWith(<<>>, 1, n)

NextLanes ==
    \/ ReturnEmpty
    \/ LayoutCommit
    \/ ReturnTotal

SpecLanes == InitLanes /\ [][NextLanes]_vars

\* ---------------- SpecListed: computeLaneLayout on every list of MaxListed
\* ---------------- commits with distinct hashes, parents before or after them
\* the parents commit k of n can have when the list is in any order: at most
\* two, each another commit of the list or a commit outside it
ParentsAnywhere(k, n) ==
    LET others == ((1..n) \ {k}) \cup {OutsideHash}
    IN {<<>>} \cup {<<a>> : a \in others}
              \cup {pair \in others \X others : pair[1] # pair[2]}

\* computeLaneLayout is called with a list of n commits in any order, of which
\* cs are drawn and commit k is the next; commit k has hash k
RECURSIVE CalledWithListed(_, _, _)
CalledWithListed(cs, k, n) ==
    IF k > n THEN graph = StartGraph(cs)
    ELSE \E p \in ParentsAnywhere(k, n) :
             CalledWithListed(Append(cs, [hash |-> k, parents |-> p]), k + 1, n)

InitListed ==
    /\ checkpoints = <<>>
    /\ sessions = <<>>
    /\ activeSessionId = NoId
    /\ settings = DEFAULT_SETTINGS
    /\ nextId = 0
    /\ now = 1
    /\ commits = {}
    /\ nextHash = 0
    /\ head = NoId
    /\ tip = NoId
    /\ attached = TRUE
    /\ disk = [p \in Paths |-> NoContent]
    /\ docs = [p \in Paths |-> NoContent]
    /\ last = [op |-> "init", arg |-> NoId, ret |-> NoId, before |-> <<>>,
               made |-> NoId, log |-> <<>>, fired |-> <<>>]
    /\ inFlight = <<>>
    /\ monitor = <<>>
    /\ detector = <<>>
    /\ \E n \in 0..MaxListed : CalledWithListed(<<>>, 1, n)

NextListed ==
    \/ ReturnEmpty
    \/ LayoutCommit
    \/ ReturnTotal

SpecListed == InitListed /\ [][NextListed]_vars

\* ------------- SpecGraph: getGraphData on every window of MaxWindow commits
InitGraph ==
    /\ checkpoints = <<>>
    /\ sessions = <<>>
    /\ activeSessionId = NoId
    /\ settings = DEFAULT_SETTINGS
    /\ nextId = 0
    /\ now = 1
    /\ commits = {}
    /\ nextHash = 0
    /\ head = NoId
    /\ tip = NoId
    /\ attached = TRUE
    /\ disk = [p \in Paths |-> NoContent]
    /\ docs = [p \in Paths |-> NoContent]
    /\ last = [op |-> "init", arg |-> NoId, ret |-> NoId, before |-> <<>>,
               made |-> NoId, log |-> <<>>, fired |-> <<>>]
    /\ inFlight = <<>>
    /\ monitor = <<>>
    /\ detector = <<>>
    /\ \E n \in 0..MaxWindow : Fetched(<<>>, 1, n)

NextGraph ==
    \/ BuildCommits
    \/ LinkChildren
    \/ ComputeLaneLayout
    \/ ReturnGraphData

SpecGraph == InitGraph /\ [][NextGraph]_vars

\* ------- SpecInFlight: change events while createCheckpoint calls are suspended
InFlightScope ==
    [triggers |-> {<<"Manual", "User">>, <<"AIGenerated", "Copilot">>,
                   <<"AutoSave", "AutoSave">>},
     fileLists |-> {<<FileA1>>}, outcomes |-> {NotARepository, CommitOk},
     ticks |-> {0, 1},
     maxId |-> InFlightMaxId, maxTime |-> 3, maxHash |-> InFlightMaxHash]

InitInFlight == InitWith(MaxCheckpointsLimit)

NextInFlight ==
    \/ StartSessionIdle(InFlightScope)
    \/ ChangeEvent(InFlightScope)
    \/ GitAnswers(InFlightScope)
    \/ StorageSaved

SpecInFlight == InitInFlight /\ [][NextInFlight]_vars

\* ------------------ SpecSync: syncWithGit against a log that gains and loses commits
SyncScope ==
    [triggers |-> {<<"Manual", "User">>}, fileLists |-> {<<>>},
     outcomes |-> {NotARepository, CommitOk}, ticks |-> {0},
     maxId |-> SyncMaxId, maxTime |-> 1, maxHash |-> SyncMaxHash]

InitSync == InitWith(MaxCheckpointsLimit)

NextSync ==
    \/ StartSession(SyncScope)
    \/ CreateCheckpoint(SyncScope)
    \/ SyncWithGit(SyncScope)
    \/ GitCommitArrives(SyncScope)
    \/ GitCommitLeaves

SpecSync == InitSync /\ [][NextSync]_vars

\* ---- SpecSyncTwice: syncWithGit called again and again, between changes of
\* ---- the log and of the store
SyncTwiceScope ==
    [triggers |-> {<<"Manual", "User">>}, fileLists |-> {<<>>},
     outcomes |-> {NotARepository, CommitOk}, ticks |-> {0},
     maxId |-> TwiceMaxId, maxTime |-> 1, maxHash |-> TwiceMaxHash]

InitSyncTwice == InitWith(MaxCheckpointsLimit)

NextSyncTwice ==
    \/ StartSession(SyncTwiceScope)
    \/ CreateCheckpoint(SyncTwiceScope)
    \/ SyncWithGitAfter(SyncTwiceScope)
    \/ GitCommitArrives(SyncTwiceScope)
    \/ GitCommitLeaves

SpecSyncTwice == InitSyncTwice /\ [][NextSyncTwice]_vars

\* ---- SpecSessions: the sessions' checkpointIds and totalFilesChanged over
\* ---- createCheckpoint, deleteCheckpoint, eviction and syncWithGit
SessionsScope ==
    [triggers |-> {<<"Manual", "User">>}, fileLists |-> {<<>>, <<FileA1, FileB0>>},
     outcomes |-> {NotARepository, CommitOk}, ticks |-> 0..1,
     maxId |-> SessionsMaxId, maxTime |-> SessionsMaxTime,
     maxHash |-> SessionsMaxHash]

InitSessions == InitWith(SessionsLimit)

NextSessions ==
    \/ StartSession(SessionsScope)
    \/ CreateCheckpoint(SessionsScope)
    \/ DeleteCheckpoint(SessionsScope)
    \/ SyncWithGit(SessionsScope)
    \/ GitCommitLeaves

SpecSessions == InitSessions /\ [][NextSessions]_vars

\* ---- SpecCleanup: cleanupInvalidCheckpoints over checkpoints with and without
\* ---- commits and stored content, while commits leave the log
CleanupScope ==
    [triggers |-> {<<"Manual", "User">>},
     fileLists |-> {<<>>, <<FileA1>>, <<FileA1, FileB0>>},
     outcomes |-> {NotARepository, CommitOk}, ticks |-> {0},
     maxId |-> CleanupMaxId, maxTime |-> 1, maxHash |-> CleanupMaxHash]

InitCleanup == InitWith(CleanupLimit)

NextCleanup ==
    \/ StartSession(CleanupScope)
    \/ CreateCheckpoint(CleanupScope)
    \/ GitCommitLeaves
    \/ CleanupInvalidCheckpoints(CleanupScope)

SpecCleanup == InitCleanup /\ [][NextCleanup]_vars

\* ---- SpecTravel: commits, edits of the working tree, rollbackToState on any
\* ---- commit (also one after another) and returnToLatest
TravelScope ==
    [triggers |-> {<<"Manual", "User">>}, fileLists |-> {<<>>},
     outcomes |-> {CommitOk}, ticks |-> {0},
     maxId |-> TravelMaxId, maxTime |-> 1, maxHash |-> TravelMaxHash,
     rollbacks |-> {}, history |-> FALSE]

InitTravel == InitWith(ReturnLimit)

NextTravel ==
    \/ CreateCheckpoint(TravelScope)
    \/ WriteFile
    \/ RollbackToState(TravelScope)
    \/ ReturnToLatest(TravelScope)

SpecTravel == InitTravel /\ [][NextTravel]_vars

\* ---- SpecMonitor: the StateMonitor as constructed, its clock well past
\* ---- minTimeBetweenCommits, with file changes, timer firings and git answers
\* ---- in every order
InitMonitor ==
    /\ checkpoints = <<>>
    /\ sessions = <<>>
    /\ activeSessionId = NoId
    /\ settings = DEFAULT_SETTINGS
    /\ nextId = 0
    /\ now = 1
    /\ commits = {}
    /\ nextHash = 0
    /\ head = NoId
    /\ tip = NoId
    /\ attached = TRUE
    /\ disk = [p \in Paths |-> NoContent]
    /\ docs = [p \in Paths |-> NoContent]
    /\ last = [op |-> "init", arg |-> NoId, ret |-> NoId, before |-> <<>>,
               made |-> NoId, log |-> <<>>, fired |-> <<>>]
    /\ graph = <<>>
    /\ inFlight = <<>>
    /\ monitor = [clock |-> minTimeBetweenCommits, commitTimeout |-> NoTimer,
                  lastCommitTime |-> 0, isEnabled |-> TRUE,
                  autoCommitEnabled |-> TRUE, dirty |-> FALSE,
                  checks |-> <<>>, commitsAt |-> <<>>]
    /\ detector = <<>>

NextMonitor ==
    \/ Tick
    \/ FileChanges
    \/ TimerFires
    \/ StatusReturns
    \/ CommitReturns

SpecMonitor == InitMonitor /\ [][NextMonitor]_vars

\* ---- SpecAutoSave: the StateMonitor with auto-commit enabled over a repository
\* ---- that answers getStatus and accepts every commit; time passes, a timer
\* ---- that is due runs its callback and a pending git call returns
NextAutoSave ==
    \/ Tick
    \/ FileChangesInTime
    \/ TimerFires
    \/ StatusAnswers
    \/ CommitAccepted

SpecAutoSave ==
    /\ InitMonitor
    /\ [][NextAutoSave]_vars
    /\ WF_vars(Tick)
    /\ WF_vars(TimerFires)
    /\ WF_vars(StatusAnswers)
    /\ WF_vars(CommitAccepted)

\* ---- SpecDetector: the AIDetector with two documents open and saved, their
\* ---- snapshots taken; edits, saves and the debounce timer in every order
InitDetector ==
    /\ checkpoints = <<>>
    /\ sessions = <<>>
    /\ activeSessionId = NoId
    /\ settings = DEFAULT_SETTINGS
    /\ nextId = 0
    /\ now = 1
    /\ commits = {}
    /\ nextHash = 0
    /\ head = NoId
    /\ tip = NoId
    /\ attached = TRUE
    /\ disk = [p \in Paths |-> IF p \in DetectorPaths THEN 1 ELSE NoContent]
    /\ docs = [p \in Paths |-> IF p \in DetectorPaths THEN 1 ELSE NoContent]
    /\ last = [op |-> "init", arg |-> NoId, ret |-> NoId, before |-> <<>>,
               made |-> NoId, log |-> <<>>, fired |-> <<>>]
    /\ graph = <<>>
    /\ inFlight = <<>>
    /\ monitor = <<>>
    /\ detector = [fileSnapshots |-> [p \in DetectorPaths |-> 1],
                   pendingChanges |-> <<>>, debounceTimer |-> FALSE,
                   batches |-> <<>>]

NextDetector ==
    \/ DocumentChanges
    \/ DocumentSaved
    \/ DebounceTimerFires

SpecDetector == InitDetector /\ [][NextDetector]_vars

\* ---- SpecOverlap: startSession calls that overlap, with and without
\* ---- createSessionBranch
OverlapScope ==
    [triggers |-> {<<"Manual", "User">>}, fileLists |-> {<<>>},
     outcomes |-> {NotARepository, CommitOk}, ticks |-> {0},
     maxId |-> OverlapMaxId, maxTime |-> 1, maxHash |-> OverlapMaxHash]

InitOverlap ==
    \E createSessionBranch \in BOOLEAN :
        /\ checkpoints = <<>>
        /\ sessions = <<>>
        /\ activeSessionId = NoId
        /\ settings = [DEFAULT_SETTINGS EXCEPT
                          !.createSessionBranch = createSessionBranch]
        /\ nextId = 0
        /\ now = 1
        /\ commits = {}
        /\ nextHash = 0
        /\ head = NoId
        /\ tip = NoId
        /\ attached = TRUE
        /\ disk = [p \in Paths |-> IF p = PathB THEN NoContent ELSE 2]
        /\ docs = [p \in Paths |-> NoContent]
        /\ last = [op |-> "init", arg |-> NoId, ret |-> NoId, before |-> <<>>,
                   made |-> NoId, log |-> <<>>, fired |-> <<>>]
        /\ graph = <<>>
        /\ inFlight = <<>>
        /\ monitor = <<>>
        /\ detector = <<>>

NextOverlap ==
    \/ StartSessionCalled(OverlapScope)
    \/ StartSessionResumes(OverlapScope)

SpecOverlap == InitOverlap /\ [][NextOverlap]_vars

\* ---- SpecSessionChange: createCheckpoint calls suspended at git while
\* ---- sessions are ended and started; the limit is never reached
SessionChangeScope ==
    [triggers |-> {<<"Manual", "User">>, <<"AIGenerated", "Copilot">>},
     fileLists |-> {<<FileA1>>}, outcomes |-> {NotARepository, CommitOk},
     ticks |-> {0},
     maxId |-> ChangeMaxId, maxTime |-> 1, maxHash |-> ChangeMaxHash]

InitSessionChange == InitWith(ChangeLimit)

NextSessionChange ==
    \/ StartSession(SessionChangeScope)
    \/ EndSession(SessionChangeScope)
    \/ ChangeEvent(SessionChangeScope)
    \/ GitAnswers(SessionChangeScope)
    \/ StorageSaved

SpecSessionChange == InitSessionChange /\ [][NextSessionChange]_vars

\* ------------------------- SpecRollbackFile: rollbackFile on one file of a checkpoint
RollbackFileScope ==
    [triggers |-> {<<"Manual", "User">>}, fileLists |-> {<<FileA1>>, <<FileB0>>},
     outcomes |-> {NotARepository, CommitOk}, ticks |-> {0},
     maxId |-> FileMaxId, maxTime |-> 1, maxHash |-> FileMaxHash]

InitRollbackFile == InitWith(MaxCheckpointsLimit)

NextRollbackFile ==
    \/ CreateCheckpoint(RollbackFileScope)
    \/ EditDocument
    \/ WriteFile
    \/ RollbackFile(RollbackFileScope)

SpecRollbackFile == InitRollbackFile /\ [][NextRollbackFile]_vars

\* ================================================================= claims
Ids(cps) == {cp.id : cp \in Range(cps)}

ById(cps, id) == CHOOSE cp \in Range(cps) : cp.id = id

ActiveSessions == {i \in 1..Len(sessions) : sessions[i].isActive}

\* C1: at most one session is active; activeSessionId is set exactly when there
\* is one and names it; a startSession that found a session active left that
\* session with isActive = false and endTime set.
C1_OneActiveSession ==
    /\ Cardinality(ActiveSessions) <= 1
    /\ (activeSessionId # NoId) <=> (ActiveSessions # {})
    /\ \A i \in ActiveSessions : sessions[i].id = activeSessionId
    /\ (last.op = "startSession" /\ last.arg # NoId) =>
           \E i \in 1..Len(sessions) :
               /\ sessions[i].id = last.arg
               /\ ~sessions[i].isActive
               /\ sessions[i].endTime # NoId

C1_Witness ==
    /\ last.op = "startSession"
    /\ last.arg # NoId
    /\ Len(sessions) >= 2
    /\ activeSessionId # last.arg

\* C2: every stored checkpoint's sessionId names an existing session, and the
\* checkpoint's id is in that session's checkpointIds and in no other session's.
C2_CheckpointInItsSession ==
    \A cp \in Range(checkpoints) :
        /\ \E j \in 1..Len(sessions) : sessions[j].id = cp.sessionId
        /\ \A j \in 1..Len(sessions) :
               (cp.id \in Range(sessions[j].checkpointIds))
                   <=> (sessions[j].id = cp.sessionId)

\* following parentId from id ends at an unset parentId within fuel steps
RECURSIVE ChainEnds(_, _, _)
ChainEnds(cps, id, fuel) ==
    IF id = NoId THEN TRUE
    ELSE IF fuel = 0 \/ id \notin Ids(cps) THEN FALSE
    ELSE ChainEnds(cps, ById(cps, id).parentId, fuel - 1)

\* the number of parentId links from id to the unset parentId
RECURSIVE ChainLength(_, _, _)
ChainLength(cps, id, fuel) ==
    IF id = NoId \/ fuel = 0 \/ id \notin Ids(cps) THEN 0
    ELSE 1 + ChainLength(cps, ById(cps, id).parentId, fuel - 1)

\* D is on the chain that starts at id
RECURSIVE OnChain(_, _, _, _)
OnChain(cps, id, D, fuel) ==
    IF id = NoId \/ fuel = 0 \/ id \notin Ids(cps) THEN FALSE
    ELSE id = D \/ OnChain(cps, ById(cps, id).parentId, D, fuel - 1)

SameSession(cps, sid) == SelectSeq(cps, LAMBDA cp : cp.sessionId = sid)

\* C3: the checkpoint a createCheckpoint makes has no parentId when its session
\* had no stored checkpoint, and else the id of a checkpoint of the same session,
\* stored before it, that no other such checkpoint is more recent than; and from
\* every stored checkpoint the parentId links end at an unset parentId.
C3_ParentChain ==
    /\ last.op \in {"createCheckpoint", "startSession"} =>
           LET C == last.made
               prior == SameSession(last.before, C.sessionId)
           IN IF prior = <<>> THEN C.parentId = NoId
              ELSE \E k \in 1..Len(prior) :
                      /\ prior[k].id = C.parentId
                      /\ \A m \in 1..Len(prior) :
                             prior[m].timestamp <= prior[k].timestamp
    /\ \A cp \in Range(checkpoints) :
           ChainEnds(checkpoints, cp.id, Len(checkpoints))

C3_Witness ==
    /\ last.op = "createCheckpoint"
    /\ Len(SameSession(last.before, last.made.sessionId)) >= 2
    /\ last.made.parentId # NoId
    /\ \E cp \in Range(checkpoints) :
           cp.parentId # NoId /\ ById(checkpoints, cp.parentId).parentId # NoId
    /\ \E a, b \in Range(last.before) : a.timestamp < b.timestamp

\* C4: deleteCheckpoint(id) of a stored checkpoint D gives every checkpoint whose
\* parentId was D.id the parentId of D, removes D from the store and from its
\* session's checkpointIds and changes no other parentId; every chain through D
\* is one link shorter, every other chain as long as before, and no parentId
\* names a checkpoint that is not stored.
C4_DeleteRelinks ==
    last.op = "deleteCheckpoint" =>
        LET before == last.before
            D == ById(before, last.arg)
        IN /\ Ids(checkpoints) = Ids(before) \ {D.id}
           /\ \A j \in 1..Len(sessions) : D.id \notin Range(sessions[j].checkpointIds)
           /\ \A old \in Range(before) :
                  old.id # D.id =>
                      /\ ById(checkpoints, old.id).parentId =
                             (IF old.parentId = D.id THEN D.parentId ELSE old.parentId)
                      /\ ChainLength(checkpoints, old.id, Len(checkpoints)) =
                             ChainLength(before, old.id, Len(before))
                             - (IF OnChain(before, old.id, D.id, Len(before))
                                THEN 1 ELSE 0)
           /\ \A cp \in Range(checkpoints) :
                  cp.parentId # NoId => cp.parentId \in Ids(checkpoints)

C4_Witness ==
    /\ last.op = "deleteCheckpoint"
    /\ ById(last.before, last.arg).parentId # NoId
    /\ \E child \in Range(last.before) : child.parentId = last.arg
    /\ \E cp \in Range(checkpoints) :
           cp.parentId = ById(last.before, last.arg).parentId

\* C5: a createCheckpoint, whose last step is enforceCheckpointLimit, deletes no
\* checkpoint that is starred, however old it is and however many are stored.
C5_StarredSurvive ==
    [][last'.op = "createCheckpoint" =>
          \A cp \in Range(checkpoints) :
              cp.starred => cp.id \in Ids(checkpoints')]_vars

C5_Witness ==
    /\ last.op = "createCheckpoint"
    /\ Len(checkpoints) < Len(last.before) + 1
    /\ \E kept \in Range(checkpoints) :
           /\ kept.starred
           /\ \E gone \in Range(last.before) :
                  gone.id \notin Ids(checkpoints) /\ kept.timestamp <= gone.timestamp

\* the store as enforceCheckpointLimit found it in the last createCheckpoint
AtEnforce == Append(last.before, last.made)

\* C6: with no checkpoint starred, after createCheckpoint the store holds at
\* most maxCheckpoints checkpoints, exactly maxCheckpoints when there were more,
\* and every evicted checkpoint is at most as recent as every retained one.
C6_KeepsMostRecent ==
    (last.op = "createCheckpoint" /\ \A cp \in Range(AtEnforce) : ~cp.starred) =>
        /\ Len(checkpoints) <= settings.maxCheckpoints
        /\ Len(AtEnforce) > settings.maxCheckpoints =>
               Len(checkpoints) = settings.maxCheckpoints
        /\ Ids(checkpoints) \subseteq Ids(AtEnforce)
        /\ \A gone \in Range(AtEnforce), kept \in Range(checkpoints) :
               gone.id \notin Ids(checkpoints) => gone.timestamp <= kept.timestamp

C6_Witness ==
    /\ last.op = "createCheckpoint"
    /\ \A cp \in Range(AtEnforce) : ~cp.starred
    /\ Len(AtEnforce) >= settings.maxCheckpoints + 2
    /\ Len(checkpoints) = settings.maxCheckpoints
    /\ \E gone \in Range(AtEnforce), kept \in Range(checkpoints) :
           gone.id \notin Ids(checkpoints) /\ gone.timestamp < kept.timestamp

HasPreviousContent(cp) ==
    \E k \in 1..Len(cp.changedFiles) : cp.changedFiles[k].previousContent # NoContent

\* C7: validateCheckpoint reports canRollback = true exactly when the
\* checkpoint's gitCommitHash names an existing commit or one of its changedFiles
\* carries previousContent.
C7_CanRollbackIff ==
    last.op = "validateCheckpoint" =>
        LET cp == last.arg.checkpoint
            resolves == /\ cp.gitCommitHash # NoId
                        /\ last.arg.isRepo
                        /\ commitExists(commits, cp.gitCommitHash)
        IN last.ret.canRollback <=> (resolves \/ HasPreviousContent(cp))

\* C8: whatever the version-control calls inside createCheckpoint do, the
\* checkpoint it returns is stored and listed in the active session, and it has
\* a gitCommitHash only when the commit succeeded and returned a hash.
C8_CreateNeverFails ==
    last.op = "createCheckpoint" =>
        /\ last.ret.id \in Ids(checkpoints)
        /\ \E i \in 1..Len(sessions) :
               /\ sessions[i].id = activeSessionId
               /\ last.ret.id \in Range(sessions[i].checkpointIds)
        /\ last.ret.gitCommitHash # NoId =>
               (last.arg.isRepo /\ ~last.arg.statusThrows /\ last.arg.commit = "ok")

\* the last call was a rollback of a stored checkpoint
RolledBack == last.op = "rollback" /\ last.arg.id \in Ids(last.before)

RollbackTarget == ById(last.before, last.arg.id)

\* C9: a rollback of an existing checkpoint reports success = true only when
\* it restored at least one file and recorded no error.
C9_SuccessRule ==
    (RolledBack /\ last.ret.success) =>
        (Len(last.ret.filesRestored) > 0 /\ Len(last.ret.errors) = 0)

\* the content an editor or a reader of the file sees at path p
ContentAt(p) == IF docs[p] # NoContent THEN docs[p] ELSE disk[p]

\* C10: a rollback that is not cancelled, of a checkpoint without gitCommitHash
\* or in a workspace that is not a repository, with no write failing, leaves
\* every changedFiles entry that carries previousContent with that content and
\* lists its path in filesRestored.
C10_ContentReplay ==
    (/\ RolledBack
     /\ last.arg.r.skipConfirmation \/ last.arg.r.confirm = "Rollback"
     /\ RollbackTarget.gitCommitHash = NoId \/ ~last.arg.r.g.isRepo
     /\ last.arg.r.writeThrows = {}) =>
        \A k \in 1..Len(RollbackTarget.changedFiles) :
            LET file == RollbackTarget.changedFiles[k]
            IN file.previousContent # NoContent =>
                  /\ file.path \in Range(last.ret.filesRestored)
                  /\ ContentAt(file.path) = file.previousContent

\* the last call was a rollback that was not cancelled in a dialog
RollbackRan ==
    /\ RolledBack
    /\ last.ret.message \in {"Successfully rolled back", "Rolled back to checkpoint",
                              "Rollback failed"}

\* the last two calls were: a rollback that made a backup and did not go through
\* git, then a rollback to that backup
RoundTripDone ==
    /\ RollbackRan
    /\ last.arg.history[1].prev # <<>>
    /\ last.arg.id = last.arg.history[1].prev[1].backups[1].id

\* C11: after a rollback by content-replay that made a backup, a rollback to
\* that backup leaves every file with the content it had before the first one.
C11_RoundTrip ==
    RoundTripDone => WorkingContent = last.arg.history[1].prev[1].w

\* the last call was a rollback that got past the confirmation dialogs
RollbackProceeded ==
    /\ RolledBack
    /\ last.ret.message \notin {"Rollback cancelled by user",
                                  "Rollback cancelled after diff preview"}

\* what a rollback changes outside the store
IsMutation(e) == e.kind \in {"reset", "checkout", "write"}

\* C12: a rollback of an existing checkpoint that is not declined, with
\* createBackup not false, creates a checkpoint with the type and source of the
\* target and a backup name, and that checkpoint is stored before the first
\* reset, checkout or write of the call; with createBackup = false the call
\* creates no checkpoint.
C12_BackupFirst ==
    RollbackProceeded =>
        IF last.arg.r.createBackup
        THEN \E k \in 1..Len(last.log) :
                 /\ last.log[k].kind = "saved"
                 /\ \A j \in 1..(k - 1) : ~IsMutation(last.log[j])
                 /\ \E cp \in Range(checkpoints) :
                        /\ cp.id = last.log[k].id
                        /\ cp.type = RollbackTarget.type
                        /\ cp.source = RollbackTarget.source
                        /\ "Backup before rollback" \in cp.name
        ELSE /\ CreatedIn(last.log) = <<>>
             /\ checkpoints = last.before

\* C13: rollback with an id that names no stored checkpoint resolves with
\* success = false, nothing restored or not restored and a not-found message and
\* error; it creates no checkpoint and changes neither the store, the
\* repository nor any file or document.
C13_NotFound ==
    [][(last'.op = "rollback" /\ last'.arg.id \notin Ids(checkpoints)) =>
          /\ last'.ret = RollbackResult(FALSE, "Checkpoint not found", <<>>, <<>>,
                                        << <<"Checkpoint not found", <<>> >> >>)
          /\ last'.log = <<>>
          /\ UNCHANGED <<checkpoints, sessions, activeSessionId, settings, nextId,
                         now, commits, nextHash, head, tip, attached, disk,
                         docs>>]_vars

C13_Witness ==
    /\ last.op = "rollback"
    /\ last.arg.id \notin Ids(checkpoints)
    /\ last.arg.r.createBackup
    /\ last.arg.r.skipConfirmation
    /\ \E cp \in Range(checkpoints) : cp.gitCommitHash # NoId
    /\ \E p \in Paths : isDirty(Store, p)

\* the files a rollback that ran was to restore and did not: on the checkout
\* path the files whose checkout failed, else the changedFiles of the target
\* that are not in filesRestored
Unrestored ==
    IF last.ret.message = "Successfully rolled back"
    THEN {last.log[k].path : k \in {j \in 1..Len(last.log) :
                                       last.log[j].kind = "checkoutFailed"}}
    ELSE {RollbackTarget.changedFiles[k].path :
              k \in 1..Len(RollbackTarget.changedFiles)}
         \ Range(last.ret.filesRestored)

\* C14: every file a rollback leaves unrestored is named in filesNotRestored
\* and has an entry in errors that explains it.
C14_UnrestoredNamed ==
    RollbackRan =>
        \A p \in Unrestored :
            /\ p \in Range(last.ret.filesNotRestored)
            /\ \E k \in 1..Len(last.ret.errors) : last.ret.errors[k][2] = p

\* the last two calls were a rollback by hard reset to a commit B with a parent,
\* on a branch whose tip C was the child of B, and then returnToLatest
ScenarioD ==
    /\ last.op = "returnToLatest"
    /\ ~last.arg.gitFails
    /\ last.arg.reset # <<>>
    /\ last.arg.reset[1].hard
    /\ commitExists(commits, last.arg.reset[1].from)
    /\ getCommit(commits, last.arg.reset[1].from).parent = last.arg.reset[1].to
    /\ getCommit(commits, last.arg.reset[1].to).parent # NoId

\* C15: with commits A, B, C in a line and the branch at C, a rollback to B by
\* hard reset followed by returnToLatest leaves HEAD at C and every file and
\* document with C's content.
C15_ReturnsToTip ==
    ScenarioD =>
        /\ head = last.arg.reset[1].from
        /\ \A p \in Paths :
               LET content == treeOf(commits, last.arg.reset[1].from)[p]
               IN content # NoContent => WorkingContent[p] = content

\* the session that is active
ActiveSession == sessions[CHOOSE i \in 1..Len(sessions) : sessions[i].id = activeSessionId]

\* a step of scenario A: the last call was startSession on an empty store (it
\* left the session active), and this step is createCheckpoint(Manual, User,
\* [one modified file]) with maxCheckpoints >= 2
ScenarioAStep ==
    /\ last.op = "startSession"
    /\ last.before = <<>>
    /\ settings.maxCheckpoints >= 2
    /\ last'.op = "createCheckpoint"
    /\ last'.made.type = "Manual" /\ last'.made.source = "User"

\* the claim as stated: after startSession and one createCheckpoint with one
\* modified file the session has checkpointIds of length 1 and
\* totalFilesChanged = 1
C16_ScenarioA_AsStated ==
    [][ScenarioAStep =>
          /\ Len(ActiveSession'.checkpointIds) = 1
          /\ ActiveSession'.totalFilesChanged = 1]_vars

\* C16 (amended): after startSession on an empty store with maxCheckpoints >= 2
\* and one createCheckpoint(Manual, User, [one modified file]) the session has
\* checkpointIds of length 2, the SessionStart checkpoint and then the new one,
\* and totalFilesChanged is the number of changedFiles the two record: 1 when
\* the SessionStart checkpoint records none and the new one records the file.
C16_ScenarioA ==
    [][ScenarioAStep =>
          /\ ActiveSession'.id = activeSessionId
          /\ Len(ActiveSession'.checkpointIds) = 2
          /\ ActiveSession'.checkpointIds = <<last.made.id, last'.made.id>>
          /\ last.made.type = "SessionStart"
          /\ checkpoints' = <<last.made, last'.made>>
          /\ ActiveSession'.totalFilesChanged =
                 Len(last.made.changedFiles) + Len(last'.made.changedFiles)
          /\ (last.made.changedFiles = <<>> /\ Len(last'.made.changedFiles) = 1) =>
                 ActiveSession'.totalFilesChanged = 1]_vars

C16_Witness ==
    /\ last.op = "createCheckpoint"
    /\ Len(sessions) = 1
    /\ Len(checkpoints) = 2
    /\ checkpoints[1].type = "SessionStart" /\ checkpoints[1].changedFiles = <<>>
    /\ checkpoints[2].type = "Manual" /\ Len(checkpoints[2].changedFiles) = 1
    /\ sessions[1].checkpointIds = <<checkpoints[1].id, checkpoints[2].id>>
    /\ sessions[1].totalFilesChanged = 1

\* ---------------------------------------------------------------- lanes
\* the slots that hold a hash
Occupied(activeLanes) == {k \in 1..Len(activeLanes) : activeLanes[k] # FreeLane}

\* the free slots, as 0-based indexes
FreeSlots(activeLanes) ==
    {k - 1 : k \in {j \in 1..Len(activeLanes) : activeLanes[j] = FreeLane}}

Lowest(S) == CHOOSE x \in S : \A y \in S : x <= y

\* a chain in log order: every commit's only parent is the next commit; the
\* last commit is a root or has its only parent outside the list
IsLinearChain(cs) ==
    /\ Len(cs) >= 1
    /\ \A k \in 1..(Len(cs) - 1) : cs[k].parents = <<cs[k + 1].hash>>
    /\ cs[Len(cs)].parents \in {<<>>, <<OutsideHash>>}

\* C17: on a linear chain of N >= 1 commits in log order computeLaneLayout
\* gives every commit lane 0 and returns totalLanes = 1.
C17_LinearChain ==
    IsLinearChain(graph.commits) =>
        /\ \A k \in 1..Len(graph.lane) : graph.lane[k] = 0
        /\ graph.returned => graph.totalLanes = 1

C17_Witness ==
    /\ IsLinearChain(graph.commits)
    /\ Len(graph.commits) >= 3
    /\ graph.commits[Len(graph.commits)].parents = <<OutsideHash>>
    /\ graph.returned
    /\ Len(graph.lane) = Len(graph.commits)
    /\ graph.totalLanes = 1

\* some commit of the list has two parents
HasMerge(cs) == \E k \in 1..Len(cs) : Len(cs[k].parents) = 2

\* every parent is a commit of the list: every line ends at a root in the list
EndsAtRoots(cs) ==
    \A k \in 1..Len(cs) : \A i \in 1..Len(cs[k].parents) : cs[k].parents[i] <= Len(cs)

\* the commit the loop has just processed has two parents
AtMerge ==
    /\ graph.pos >= 1
    /\ ~graph.returned
    /\ Len(graph.commits[graph.pos].parents) = 2

\* the pass is over
PassOver == graph.pos = Len(graph.commits) /\ graph.pos >= 1

\* the claim as stated: at least 2 lanes at the merge commit, and exactly 1
\* lane left (slots still occupied, or the count returned) once every branch
\* has converged and ended
C18_MergeLanes_AsStated ==
    /\ AtMerge => Cardinality(Occupied(graph.activeLanes)) >= 2
    /\ (graph.returned /\ HasMerge(graph.commits) /\ EndsAtRoots(graph.commits)) =>
           \/ Cardinality(Occupied(graph.activeLanes)) = 1
           \/ graph.totalLanes = 1

\* C18 (amended): right after a merge commit with two parents is processed at
\* least 2 lane slots are occupied, and the count returned is at least 2; once
\* every branch has ended at a root of the list no slot is occupied, and the
\* count returned is still the number of slots allocated, not 1.
C18_MergeLanes ==
    /\ AtMerge => Cardinality(Occupied(graph.activeLanes)) >= 2
    /\ (PassOver /\ EndsAtRoots(graph.commits)) => Occupied(graph.activeLanes) = {}
    /\ (graph.returned /\ HasMerge(graph.commits)) =>
           /\ graph.totalLanes >= 2
           /\ graph.totalLanes = Len(graph.activeLanes)

C18_Witness ==
    /\ graph.returned
    /\ Len(graph.commits) = 4
    /\ Len(graph.commits[1].parents) = 2
    /\ graph.commits[2].parents = graph.commits[3].parents
    /\ graph.commits[4].parents = <<>>
    /\ EndsAtRoots(graph.commits)
    /\ Occupied(graph.activeLanes) = {}
    /\ graph.totalLanes = 2

\* C19: for every commit list, the empty one included, the count returned is
\* max(1, number of lane slots allocated during the pass).
C19_TotalLanes ==
    graph.returned => graph.totalLanes = Max(1, Len(graph.activeLanes))

\* C20: every findFreeLane call of a turn of the loop (for a commit nobody
\* waits for, or for an additional merge parent) returns the lowest-indexed slot
\* that is free at that moment, and a slot is added only by a call that finds
\* no slot free.
C20_LowestFree ==
    [][graph'.pos = graph.pos + 1 =>
          /\ \A i \in 1..Len(graph'.calls) :
                 LET call == graph'.calls[i]
                 IN IF FreeSlots(call.found) # {}
                    THEN call.lane = Lowest(FreeSlots(call.found))
                    ELSE call.lane = Len(call.found)
          /\ (Len(graph'.calls) >= 1 /\ graph'.calls[1].for = "commit") =>
                 graph'.calls[1].found = graph.activeLanes
          /\ Len(graph'.activeLanes) - Len(graph.activeLanes) =
                 Cardinality({i \in 1..Len(graph'.calls) :
                                 FreeSlots(graph'.calls[i].found) = {}})]_vars

C20_Witness ==
    /\ graph.pos >= 2
    /\ \E i \in 1..Len(graph.calls) :
           LET call == graph.calls[i]
           IN /\ call.for = "parent"
              /\ call.lane + 1 < Len(call.found)
              /\ call.found[call.lane + 1] = FreeLane
              /\ \E k \in (call.lane + 2)..Len(call.found) : call.found[k] # FreeLane
              /\ graph.activeLanes[call.lane + 1] # FreeLane
    /\ \E i \in 1..Len(graph.calls) : graph.calls[i].for = "commit"

\* the slots after the first k commits of cs have been processed
RECURSIVE SlotsAfter(_, _)
SlotsAfter(cs, k) ==
    IF k = 0 THEN <<>>
    ELSE layoutCommit(SlotsAfter(cs, k - 1), cs[k]).activeLanes

\* the lane reserved for the first parent of commit k when commit k was
\* processed (NotFound when none was)
ReservedForFirstParent(cs, k) ==
    findLaneForHash(SlotsAfter(cs, k - 1), cs[k].parents[1])

\* commit k has a first parent that appears later in the list
FirstParentLater(cs, k) ==
    /\ Len(cs[k].parents) >= 1
    /\ cs[k].parents[1] \in (k + 1)..Len(cs)

\* C21: for every commit c whose first parent p appears later in the list: if
\* p was not reserved in a lane when c was processed, p is reserved in c's lane
\* and is assigned that lane; if p was reserved in another lane, c's lane is
\* released (it is free, or goes to an additional parent of c in the same turn)
\* and p keeps, and is assigned, the lane that was reserved for it.
C21_FirstParentLane ==
    /\ SlotsAfter(graph.commits, graph.pos) = graph.activeLanes
    /\ \A k \in 1..graph.pos :
           FirstParentLater(graph.commits, k) =>
               LET p == graph.commits[k].parents[1]
                   found == ReservedForFirstParent(graph.commits, k)
                   slots == SlotsAfter(graph.commits, k)
                   own == graph.lane[k]
               IN /\ IF found < 0
                     THEN slots[own + 1] = p
                     ELSE /\ found # own
                          /\ slots[found + 1] = p
                          /\ slots[own + 1] # p
                          /\ slots[own + 1] # graph.commits[k].hash
                          /\ \/ slots[own + 1] = FreeLane
                             \/ \E i \in 2..Len(graph.commits[k].parents) :
                                    slots[own + 1] = graph.commits[k].parents[i]
                  /\ p <= graph.pos =>
                         graph.lane[p] = IF found < 0 THEN own ELSE found

\* both cases have happened in one pass: a commit handed its lane to its first
\* parent, and a later commit found the same parent reserved and gave its own
\* lane up
C21_Witness ==
    /\ graph.returned
    /\ \E k \in 1..Len(graph.commits) : \E j \in 1..Len(graph.commits) :
           /\ k < j
           /\ FirstParentLater(graph.commits, k)
           /\ FirstParentLater(graph.commits, j)
           /\ graph.commits[k].parents[1] = graph.commits[j].parents[1]
           /\ ReservedForFirstParent(graph.commits, k) < 0
           /\ ReservedForFirstParent(graph.commits, j) = graph.lane[k]
           /\ graph.lane[j] # graph.lane[k]
           /\ graph.lane[graph.commits[k].parents[1]] = graph.lane[k]

\* ---------------------------------------------------------- getGraphData
\* the (child, parent position) pairs of the window whose parent is in the window
WindowEdges(cs) ==
    {e \in (1..Len(cs)) \X (1..2) :
         /\ e[2] <= Len(cs[e[1]].parents)
         /\ \E j \in 1..Len(cs) : cs[j].hash = cs[e[1]].parents[e[2]]}

\* some parent of the window is a commit outside it
HasOutsideParent(cs) ==
    \E k \in 1..Len(cs) : \E i \in 1..Len(cs[k].parents) :
        \A j \in 1..Len(cs) : cs[j].hash # cs[k].parents[i]

\* the number of child entries in the whole snapshot
RECURSIVE ChildEntries(_, _)
ChildEntries(cs, k) ==
    IF k = 0 THEN 0 ELSE Len(cs[k].children) + ChildEntries(cs, k - 1)

\* C22: in the snapshot getGraphData returns, c.hash is in p.children if and
\* only if p.hash is in c.parents, for all commits p and c of the window; a
\* parent outside the window adds no child entry anywhere (there are exactly
\* as many child entries as parent references inside the window), and the
\* parents are as fetched.
C22_ChildrenInvertParents ==
    graph.stage = "returned" =>
        /\ Len(graph.commits) = Len(graph.rawCommits)
        /\ \A p \in 1..Len(graph.commits) : \A c \in 1..Len(graph.commits) :
               (graph.commits[c].hash \in Range(graph.commits[p].children))
                   <=> (graph.commits[p].hash \in Range(graph.commits[c].parents))
        /\ \A p \in 1..Len(graph.commits) :
               /\ graph.commits[p].parents = graph.rawCommits[p].parents
               /\ \A i \in 1..Len(graph.commits[p].children) :
                      \E c \in 1..Len(graph.commits) :
                          graph.commits[c].hash = graph.commits[p].children[i]
        /\ ChildEntries(graph.commits, Len(graph.commits))
               = Cardinality(WindowEdges(graph.commits))

\* a returned snapshot of a window with a parent outside it, a commit with two
\* children and a merge
C22_Witness ==
    /\ graph.stage = "returned"
    /\ HasOutsideParent(graph.commits)
    /\ \E p \in 1..Len(graph.commits) : Len(graph.commits[p].children) = 2
    /\ \E c \in 1..Len(graph.commits) :
           /\ Len(graph.commits[c].parents) = 2
           /\ \A i \in 1..2 : graph.commits[c].parents[i] <= Len(graph.commits)

\* ------------------------------------------------------------- in flight
\* C23: at most one createCheckpoint create-and-commit sequence is in flight
\* at any time: a call that a later change event starts does not read or
\* change the store before the persistence of the call in flight is complete.
C23_OneInFlight ==
    Len(inFlight) <= 1

\* ------------------------------------------------------- event delivery
\* the position of an event in the order the last call delivered its events,
\* 0 when it was not delivered
DeliveredAt(event, id) ==
    IF \E k \in 1..Len(last.fired) : last.fired[k] = Delivered(event, id)
    THEN CHOOSE k \in 1..Len(last.fired) :
             /\ last.fired[k] = Delivered(event, id)
             /\ \A j \in 1..(k - 1) : last.fired[j] # Delivered(event, id)
    ELSE 0

\* the checkpoints the last call evicted, by the deleted events it delivered
EvictedBy ==
    {last.fired[k].id : k \in {j \in 1..Len(last.fired) :
                                   last.fired[j].event = "onCheckpointDeleted"}}

\* C24: events are delivered in the order of the store mutations they report:
\* startSession delivers the session event of the new session before the
\* created event of its SessionStart checkpoint, and a createCheckpoint that
\* evicts delivers the created event of the new checkpoint before the deleted
\* events of the checkpoints it evicted.
C24_DeliveryOrder ==
    /\ last.op = "startSession" =>
           /\ DeliveredAt("onSessionChanged", activeSessionId) > 0
           /\ DeliveredAt("onCheckpointCreated", last.made.id) > 0
           /\ DeliveredAt("onSessionChanged", activeSessionId)
                  < DeliveredAt("onCheckpointCreated", last.made.id)
    /\ (last.op = "createCheckpoint" /\ EvictedBy # {}) =>
           /\ DeliveredAt("onCheckpointCreated", last.made.id) > 0
           /\ \A id \in EvictedBy :
                  DeliveredAt("onCheckpointCreated", last.made.id)
                      < DeliveredAt("onCheckpointDeleted", id)

\* ----------------------------------------------------------- syncWithGit
\* the stored checkpoints that have no gitCommitHash, in array order
WithoutRef(cps) == SelectSeq(cps, LAMBDA cp : cp.gitCommitHash = NoId)

\* a checkpoint with its parentId left out
Unlinked(cp) == [cp EXCEPT !.parentId = NoId]

\* the first id on the parentId chain from id, in cps, that is not in deleted
RECURSIVE SurvivingAncestor(_, _, _, _)
SurvivingAncestor(cps, deleted, id, fuel) ==
    IF id \notin deleted \/ fuel = 0 THEN id
    ELSE SurvivingAncestor(cps, deleted, ById(cps, id).parentId, fuel - 1)

\* the last call was syncWithGit
Synced == last.op = "syncWithGit"

\* what syncWithGit leaves, whatever it does to the checkpoints without a
\* gitCommitHash: every commit of the log has a checkpoint, every
\* gitCommitHash stored is in the log, and the counts are right
SyncedWithLog ==
    /\ \A c \in commits : \E cp \in Range(checkpoints) : cp.gitCommitHash = c.hash
    /\ \A cp \in Range(checkpoints) :
           cp.gitCommitHash # NoId => \E c \in commits : c.hash = cp.gitCommitHash
    /\ last.ret.synced = Cardinality(commits)
    /\ last.ret.added = Cardinality(Ids(checkpoints) \ Ids(last.before))
    /\ last.ret.removed = Cardinality(Ids(last.before) \ Ids(checkpoints))
    /\ Len(checkpoints) = Len(last.before) + last.ret.added - last.ret.removed

\* the claim as stated: the checkpoints without a gitCommitHash are unchanged
C25_SyncWithGit_AsStated ==
    Synced => /\ SyncedWithLog
              /\ WithoutRef(checkpoints) = WithoutRef(last.before)

\* the checkpoints without a gitCommitHash are all kept, in order, unchanged
\* but for parentId, which is relinked past the deleted checkpoints
KeptRelinked ==
    LET old == WithoutRef(last.before)
        new == WithoutRef(checkpoints)
        deleted == Ids(last.before) \ Ids(checkpoints)
    IN /\ Len(new) = Len(old)
       /\ \A k \in 1..Len(old) :
              /\ Unlinked(new[k]) = Unlinked(old[k])
              /\ new[k].parentId =
                     SurvivingAncestor(last.before, deleted, old[k].parentId,
                                       Len(last.before))

\* C25 (amended): after syncWithGit against the log L every commit of L is the
\* gitCommitHash of a stored checkpoint, every stored gitCommitHash is in L,
\* the added and removed counts are the numbers of checkpoints added and
\* deleted, and the checkpoints without a gitCommitHash are all kept, in
\* order, unchanged but for parentId: the parentId of one whose parent was
\* deleted is relinked to the nearest ancestor that was not deleted.
C25_SyncWithGit ==
    Synced => (SyncedWithLog /\ KeptRelinked)

\* a sync that added a checkpoint for a commit, deleted one whose commit had
\* left the log, and relinked a checkpoint without a gitCommitHash
C25_Witness ==
    /\ Synced
    /\ last.ret.added >= 1
    /\ last.ret.removed >= 1
    /\ WithoutRef(checkpoints) # WithoutRef(last.before)
    /\ \E cp \in Range(checkpoints) :
           cp.gitCommitHash # NoId /\ cp.id \notin Ids(last.before)

\* --------------------------------------------------------------- sessions
\* the position of checkpoint id in the array, which is in creation order
\* (push at line 218, splice at line 328); 0 when it is not stored
StoredAt(cps, id) ==
    IF id \in Ids(cps) THEN CHOOSE k \in 1..Len(cps) : cps[k].id = id ELSE 0

\* every session's checkpointIds name stored checkpoints of that session, each
\* once, in the order in which the checkpoints were created
InCreationOrder(cps, sess) ==
    \A i \in 1..Len(sess) :
        LET ids == sess[i].checkpointIds
        IN /\ \A k \in 1..Len(ids) :
                  /\ StoredAt(cps, ids[k]) > 0
                  /\ cps[StoredAt(cps, ids[k])].sessionId = sess[i].id
           /\ \A k \in 1..(Len(ids) - 1) :
                  /\ StoredAt(cps, ids[k]) < StoredAt(cps, ids[k + 1])
                  /\ cps[StoredAt(cps, ids[k])].timestamp
                         <= cps[StoredAt(cps, ids[k + 1])].timestamp

\* the files of the checkpoints a session still lists
RECURSIVE FilesListed(_, _)
FilesListed(cps, ids) ==
    IF ids = <<>> THEN 0
    ELSE Len(cps[StoredAt(cps, Head(ids))].changedFiles) + FilesListed(cps, Tail(ids))

\* C26: for every session, over any sequence of createCheckpoint,
\* deleteCheckpoint, eviction and syncWithGit, the ids in checkpointIds stay in
\* the order in which their checkpoints were created, and totalFilesChanged
\* never decreases: deleting or evicting a checkpoint does not lower it.
C26_SessionAccounting ==
    [][/\ Len(sessions') >= Len(sessions)
       /\ \A i \in 1..Len(sessions) :
              /\ sessions'[i].id = sessions[i].id
              /\ sessions'[i].totalFilesChanged >= sessions[i].totalFilesChanged
              /\ \A a \in 1..Len(sessions'[i].checkpointIds) :
                     \A b \in (a + 1)..Len(sessions'[i].checkpointIds) :
                         LET x == sessions'[i].checkpointIds[a]
                             y == sessions'[i].checkpointIds[b]
                         IN (x \in Range(sessions[i].checkpointIds)
                                 /\ y \in Range(sessions[i].checkpointIds))
                                => indexOf(sessions[i].checkpointIds, x)
                                       < indexOf(sessions[i].checkpointIds, y)
       /\ InCreationOrder(checkpoints', sessions')]_<<sessions, checkpoints>>

\* a checkpoint with files was deleted from a session that still lists
\* another, after an eviction; the session's count still includes the files of
\* the checkpoints that are gone
C26_Witness ==
    /\ last.op = "deleteCheckpoint"
    /\ \E i \in 1..Len(sessions) :
           /\ Len(sessions[i].checkpointIds) >= 1
           /\ nextId - sessions[i].id >= 3
           /\ sessions[i].totalFilesChanged
                  >= FilesListed(checkpoints, sessions[i].checkpointIds) + 4

\* ----------------------------------------------------------- rollbackFile
\* the last call was rollbackFile
RolledBackFile == last.op = "rollbackFile"

\* the checkpoint and the changedFiles entry the last rollbackFile call named,
\* in the store as the call found it; <<>> when there is none
NamedEntry ==
    LET found == SelectSeq(last.arg.was.checkpoints,
                           LAMBDA cp : cp.id = last.arg.id)
    IN IF found = <<>> THEN <<>>
       ELSE LET entries == SelectSeq(found[1].changedFiles,
                                     LAMBDA f : f.path = last.arg.path)
            IN IF entries = <<>> THEN <<>>
               ELSE <<[checkpoint |-> found[1], file |-> entries[1]]>>

\* the content of path p in the commit immediately before commit hash, NoContent
\* when there is no such commit, no commit before it or no such file in it
ContentBefore(hash, p) ==
    IF \E c \in commits : c.hash = hash /\ \E b \in commits : b.hash = c.parent
    THEN LET c == CHOOSE x \in commits : x.hash = hash
             b == CHOOSE x \in commits : x.hash = c.parent
         IN b.tree[p]
    ELSE NoContent

\* C27: rollbackFile(checkpointId, path) restores only the named file, from its
\* stored previousContent when there is one and otherwise from the commit
\* immediately before the checkpoint's gitCommitHash; every other file and
\* document, the repository and the checkpoint store are unchanged; when the
\* checkpoint or the file entry is unknown it returns false and changes nothing.
C27_RollbackFile ==
    RolledBackFile =>
        LET was == last.arg.was
            p == last.arg.path
            r == last.arg.r
        IN /\ last.ret \in BOOLEAN
           /\ checkpoints = was.checkpoints
           /\ \A q \in Paths \ {p} : disk[q] = was.disk[q] /\ docs[q] = was.docs[q]
           /\ ~last.ret => (disk = was.disk /\ docs = was.docs)
           /\ NamedEntry = <<>> => ~last.ret
           /\ NamedEntry # <<>> =>
                  LET file == NamedEntry[1].file
                      hash == NamedEntry[1].checkpoint.gitCommitHash
                  IN IF file.previousContent # NoContent
                     THEN /\ last.ret <=> ~(was.docs[p] = NoContent /\ r.writeThrows)
                          /\ last.ret => ContentAt(p) = file.previousContent
                     ELSE /\ last.ret <=> /\ hash # NoId
                                          /\ r.isRepo
                                          /\ ~r.gitFails
                                          /\ ContentBefore(hash, p) # NoContent
                          /\ last.ret => /\ disk[p] = ContentBefore(hash, p)
                                         /\ docs = was.docs

\* a file was brought back from the commit before the checkpoint's, changing
\* what was on disk, while another file was open with content of its own
C27_Witness ==
    /\ RolledBackFile
    /\ last.ret = TRUE
    /\ NamedEntry # <<>>
    /\ NamedEntry[1].file.previousContent = NoContent
    /\ disk[last.arg.path] # last.arg.was.disk[last.arg.path]
    /\ \E q \in Paths \ {last.arg.path} : ContentAt(q) # NoContent

\* ------------------------------------------------- cleanupInvalidCheckpoints
CleanedUp == last.op = "cleanupInvalidCheckpoints"

\* what validateCheckpoint answered for a checkpoint when the cleanup was called
ValidationThen(cp) ==
    validateCheckpoint([Store EXCEPT !.commits = last.arg.was.commits,
                                     !.disk = last.arg.was.disk],
                       last.arg.isRepo, cp)

InvalidThen == SelectSeq(last.arg.was.checkpoints, LAMBDA cp : ~ValidationThen(cp).valid)

ValidThen == SelectSeq(last.arg.was.checkpoints, LAMBDA cp : ValidationThen(cp).valid)

\* C28: cleanupInvalidCheckpoints deletes exactly the stored checkpoints that
\* validateCheckpoint finds not valid and keeps the others, in their order and
\* with their fields (but for the parentId of the children of a deleted one);
\* removed is the number of checkpoints deleted, and details has one entry for
\* each of them, in the order of the array
C28_CleanupInvalid ==
    CleanedUp =>
        /\ Len(checkpoints) = Len(ValidThen)
        /\ \A k \in 1..Len(checkpoints) :
               [checkpoints[k] EXCEPT !.parentId = ValidThen[k].parentId] = ValidThen[k]
        /\ last.ret.removed = Len(InvalidThen)
        /\ last.ret.removed = Len(last.arg.was.checkpoints) - Len(checkpoints)
        /\ Len(last.ret.details) = last.ret.removed
        /\ \A k \in 1..Len(InvalidThen) :
               /\ last.ret.details[k].name = InvalidThen[k].name
               /\ last.ret.details[k].issues = ValidationThen(InvalidThen[k]).issues
               /\ Delivered("onCheckpointDeleted", InvalidThen[k].id) \in Range(last.fired)
        /\ commits = last.arg.was.commits
        /\ disk = last.arg.was.disk

\* a cleanup that removed two checkpoints, one of them still fit for a rollback,
\* and kept another
C28_Witness ==
    /\ CleanedUp
    /\ last.ret.removed >= 2
    /\ checkpoints # <<>>
    /\ \E k \in 1..Len(InvalidThen) : ValidationThen(InvalidThen[k]).canRollback
    /\ \E k \in 1..Len(InvalidThen) : ~ValidationThen(InvalidThen[k]).canRollback

\* ------------------------------------------- rollbackToState, returnToLatest
Travelled == last.op = "rollbackToState" /\ last.ret.success

ReturnedToLatest == last.op = "returnToLatest" /\ last.ret.success

\* every file of the commit is in the working tree with the commit's content
HasContentOf(hash) ==
    \A p \in Paths :
        treeOf(commits, hash)[p] # NoContent => WorkingContent[p] = treeOf(commits, hash)[p]

\* after rollbackToState(h) succeeds the repository is detached at h with h's
\* content
TravelledTo ==
    Travelled =>
        /\ ~attached
        /\ head = last.arg.commitHash
        /\ HasContentOf(last.arg.commitHash)

\* C29: after rollbackToState(h) succeeds the repository is detached at h with
\* h's content, and after a returnToLatest that succeeds the current position
\* is attached to the branch, at its tip, with the tip's content
C29_TravelAndReturn ==
    /\ TravelledTo
    /\ ReturnedToLatest =>
          /\ attached
          /\ head = tip
          /\ HasContentOf(tip)

\* ------------------------------------------------------ auto-save spacing
\* C30: any two auto-save commits created by checkAndCommit are at least
\* minTimeBetweenCommits apart
C30_CommitSpacing ==
    Len(monitor.commitsAt) = 2 =>
        monitor.commitsAt[2] - monitor.commitsAt[1] >= minTimeBetweenCommits

\* ------------------------------------------------- overlapping startSession
\* C31: once every startSession call has completed, at most one session has
\* isActive = true, and activeSessionId names it
C31_OneActiveSession ==
    inFlight = <<>> =>
        /\ Cardinality(ActiveSessions) <= 1
        /\ \A i \in ActiveSessions : sessions[i].id = activeSessionId

\* ------------------------------- a session change under a suspended call
\* a suspended createCheckpoint has resumed and stored its checkpoint
StoredAfterAwait == last.op = "createCheckpoint"

\* C32: the checkpoint that a createCheckpoint stores after its version-control
\* awaits has a sessionId that names an existing session, and that session's
\* checkpointIds lists it, also when endSession or startSession completed
\* while the call was suspended
C32_StoredInASession ==
    StoredAfterAwait =>
        /\ last.made.sessionId # NoId
        /\ \E i \in 1..Len(sessions) :
               /\ sessions[i].id = last.made.sessionId
               /\ last.made.id \in Range(sessions[i].checkpointIds)

\* ------------------------------------ retention and the checkpoint just made
\* C33: when createCheckpoint resolves, the checkpoint it made and reported
\* through onCheckpointCreated is in the store and in its session's
\* checkpointIds, and the retention pass of the same call has not deleted it
C33_CreatedIsKept ==
    last.op = "createCheckpoint" =>
        /\ Delivered("onCheckpointCreated", last.made.id) \in Range(last.fired)
        /\ Delivered("onCheckpointDeleted", last.made.id) \notin Range(last.fired)
        /\ last.made.id \in Ids(checkpoints)
        /\ \E i \in 1..Len(sessions) :
               /\ sessions[i].id = last.made.sessionId
               /\ last.made.id \in Range(sessions[i].checkpointIds)

\* ------------------------------------------- rollback and its own target
\* C34: a rollback with backup enabled leaves the checkpoint it was given in
\* the store
C34_TargetIsKept ==
    (RolledBack /\ last.arg.r.createBackup) => last.arg.id \in Ids(checkpoints)

\* ------------------------------------------------------------------ C35
\* a rollback that returned one of the three cancelled results
RollbackCancelled ==
    /\ RolledBack
    /\ ~last.ret.success
    /\ last.ret.message \in {"Rollback cancelled by user",
                             "Rollback cancelled after diff preview",
                             "Rollback cancelled"}

\* C35: a rollback that returns a cancelled result leaves the checkpoint store
\* as it was before the call, and has reset, checked out, written or saved
\* nothing.
C35_CancelChangesNothing ==
    RollbackCancelled =>
        /\ checkpoints = last.before
        /\ CreatedIn(last.log) = <<>>
        /\ \A i \in 1..Len(last.log) : ~IsMutation(last.log[i])

\* ------------------------------------------------------------------ C36
\* C36: cleanupInvalidCheckpoints deletes no checkpoint for which
\* validateCheckpoint answered canRollback = true when the cleanup was called.
C36_KeepsWhatCanRollBack ==
    CleanedUp =>
        \A k \in 1..Len(last.arg.was.checkpoints) :
            ValidationThen(last.arg.was.checkpoints[k]).canRollback
                => last.arg.was.checkpoints[k].id \in Ids(checkpoints)

\* ------------------------------------------------------------------ C37
\* the hashes of the commits the pass has processed so far
ProcessedHashes == {graph.commits[k].hash : k \in 1..graph.pos}

\* every parent of a commit of the list is a later commit of the list or a
\* commit outside the list
ParentsComeLater(cs) ==
    \A k \in 1..Len(cs) : \A i \in 1..Len(cs[k].parents) :
        \A j \in 1..k : cs[j].hash # cs[k].parents[i]

\* no hash is in two slots
NoHashTwice ==
    \A i, j \in 1..Len(graph.activeLanes) :
        (i # j /\ graph.activeLanes[i] # FreeLane)
            => graph.activeLanes[i] # graph.activeLanes[j]

\* no slot holds the hash of a processed commit
NoProcessedHashWaits ==
    \A i \in 1..Len(graph.activeLanes) : graph.activeLanes[i] \notin ProcessedHashes

\* every lane given so far is a slot, and at the return a lane below totalLanes
LanesInRange ==
    /\ \A k \in 1..Len(graph.lane) :
           graph.lane[k] \in 0..(Len(graph.activeLanes) - 1)
    /\ graph.returned =>
           \A k \in 1..Len(graph.lane) : graph.lane[k] \in 0..(graph.totalLanes - 1)

\* C37 as stated: at every step of computeLaneLayout on a list with unique
\* hashes no hash is in two slots, no processed commit's hash is in a slot and
\* every lane is in 0 .. totalLanes-1.
C37_AsStated ==
    /\ NoHashTwice
    /\ NoProcessedHashWaits
    /\ LanesInRange

\* C37: at every step of computeLaneLayout on a list with unique hashes no hash
\* is in two slots and every lane given is in 0 .. totalLanes-1; when every
\* parent comes later in the list than its children, or lies outside the list,
\* no slot holds the hash of a commit that was already processed.
C37_LaneSlots ==
    /\ NoHashTwice
    /\ LanesInRange
    /\ ParentsComeLater(graph.commits) => NoProcessedHashWaits

\* a pass over a list in log order, after a merge whose two parents wait in
\* two slots while its own hash waits nowhere
C37_Witness ==
    /\ ParentsComeLater(graph.commits)
    /\ graph.pos >= 2
    /\ Len(graph.commits[graph.pos].parents) = 2
    /\ \A i \in 1..2 : \E s \in 1..Len(graph.activeLanes) :
           graph.activeLanes[s] = graph.commits[graph.pos].parents[i]
    /\ graph.commits[graph.pos].parents[1] \in (graph.pos + 1)..Len(graph.commits)
    /\ Len(graph.activeLanes) >= 2

\* ------------------------------------------------------------------ C38
\* the last call was syncWithGit and so was the call before it: nothing
\* happened to the log or to the store in between
SyncedAgain == Synced /\ last.arg.after = "syncWithGit"

\* C38: a syncWithGit that runs right after another, against the same log,
\* reports added = 0 and removed = 0 and leaves the stored checkpoints and the
\* session records as they were.
C38_SyncIsIdempotent ==
    SyncedAgain =>
        /\ last.ret.added = 0
        /\ last.ret.removed = 0
        /\ last.ret.synced = Cardinality(commits)
        /\ checkpoints = last.before
        /\ sessions = last.arg.was.sessions

\* a second sync after one that added a checkpoint for a commit and deleted
\* one whose commit had left the log, with a session that lists checkpoints
C38_Witness ==
    /\ SyncedAgain
    /\ last.arg.first.added >= 1
    /\ last.arg.first.removed >= 1
    /\ commits # {}
    /\ \E i \in 1..Len(sessions) : sessions[i].checkpointIds # <<>>

\* ------------------------------------------------------------------ C39
\* C39: with auto-commit enabled and a repository that accepts commits, a
\* tracked file change that is not yet in an auto-save commit is eventually in
\* one, also when no further file event follows it.
C39_ChangeIsCommitted == monitor.dirty ~> ~monitor.dirty

\* ------------------------------------------------------------------ C40
\* C40: in every batch that processPendingChanges emits, the previousContent
\* of each ChangedFile is the text the document had before the first edit of
\* that batch, whatever the order of the edits, the saves and the timer.
C40_PreviousIsBeforeFirstEdit ==
    \A b \in 1..Len(detector.batches) :
        \A k \in 1..Len(detector.batches[b].changedFiles) :
            detector.batches[b].changedFiles[k].previousContent
                = detector.batches[b].changedFiles[k].first

====
